---- MODULE Spec2Model ----
(***************************************************************************)
(* Physical-data aggregation pipeline of the Penafiel dashboard            *)
(* (src/modules/fisicos.py): collective match bars, per-match scatter and  *)
(* the microcycle composer, over the tables Datos_Fisicos_Partido,         *)
(* Datos_Fisicos_Entreno and Resultado.                                    *)
(*                                                                         *)
(* Text the code manipulates (round ids, match descriptions, labels,       *)
(* dates as text) is a sequence of one-character strings, so that strip,   *)
(* replace, startswith, int(), LIKE and strftime are computed, not assumed.*)
(* Numbers that pandas holds as floats are exact rationals <<n, d>>.       *)
(***************************************************************************)
EXTENDS Integers, Sequences, FiniteSets, TLC

VARIABLES
    partidos,          \* table Datos_Fisicos_Partido (set of rows)
    entrenos,          \* table Datos_Fisicos_Entreno (set of rows)
    resultados,        \* table Resultado (set of rows)
    op,                \* the operation of the last request
    args,              \* its arguments
    resp,              \* the envelope it returned
    df_jugadores,      \* its per-player aggregates (df_jugadores, df_agg, df_por_jugador)
    datos_microciclo,  \* the composer's entries before sorting
    queries,           \* the telemetry queries the request issued, in order
    locals,            \* other locals of the request (canonical id, override, dates)
    modulo,            \* the fields of the one FisicosModule instance (app.py)
    pyplot,            \* matplotlib.pyplot's figure registry, the current figure last
    hilos,             \* the worker threads drawing the individual bars
    is_running,        \* DataUpdateScheduler.is_running
    scheduler,         \* DataUpdateScheduler.scheduler, the BackgroundScheduler
    llamadas,          \* the calls on the DataUpdateScheduler in progress
    auto_update_enabled  \* Config.AUTO_UPDATE_ENABLED

\* what one request reads and leaves behind
peticion == <<partidos, entrenos, resultados, op, args, resp, df_jugadores,
              datos_microciclo, queries, locals>>

\* what lives as long as the server process
servidor == <<modulo, pyplot, hilos, is_running, scheduler, llamadas,
              auto_update_enabled>>

vars == <<peticion, servidor>>

-----------------------------------------------------------------------------
(* Characters and text *)

LowerChars == <<"a","b","c","d","e","f","g","h","i","j","k","l","m",
                "n","o","p","q","r","s","t","u","v","w","x","y","z">>
UpperChars == <<"A","B","C","D","E","F","G","H","I","J","K","L","M",
                "N","O","P","Q","R","S","T","U","V","W","X","Y","Z">>
DigitChars == <<"0","1","2","3","4","5","6","7","8","9">>

\* code-point order of the characters the model uses (ASCII)
Alphabet == <<" ", "+", "-", ".", "/">> \o DigitChars \o UpperChars \o <<"_">> \o LowerChars

IsSpace(c) == c \in {" ", "\t", "\n"}
IsDigit(c) == \E i \in 1..10 : DigitChars[i] = c
DigitVal(c) == (CHOOSE i \in 1..10 : DigitChars[i] = c) - 1

UpperChar(c) ==
    IF \E i \in 1..26 : LowerChars[i] = c
    THEN UpperChars[CHOOSE i \in 1..26 : LowerChars[i] = c]
    ELSE c

\* str.upper()
Upper(s) == [i \in 1..Len(s) |-> UpperChar(s[i])]

RECURSIVE LStrip(_)
LStrip(s) == IF s # <<>> /\ IsSpace(Head(s)) THEN LStrip(Tail(s)) ELSE s

RECURSIVE RStrip(_)
RStrip(s) ==
    IF s # <<>> /\ IsSpace(s[Len(s)]) THEN RStrip(SubSeq(s, 1, Len(s) - 1)) ELSE s

\* str.strip()
Strip(s) == RStrip(LStrip(s))

\* str.startswith(p)
StartsWith(s, p) == Len(s) >= Len(p) /\ SubSeq(s, 1, Len(p)) = p

\* `p in s`, and SQL  s LIKE '%p%'
Contains(s, p) ==
    \E i \in 1..(Len(s) - Len(p) + 1) : SubSeq(s, i, i + Len(p) - 1) = p

\* str.replace(old, new): every non-overlapping occurrence, left to right
RECURSIVE Replace(_, _, _)
Replace(s, old, new) ==
    IF Len(s) < Len(old) \/ old = <<>> THEN s
    ELSE IF StartsWith(s, old)
         THEN new \o Replace(SubSeq(s, Len(old) + 1, Len(s)), old, new)
         ELSE <<Head(s)>> \o Replace(Tail(s), old, new)

\* s.split(sep)[-1]: the text after the last occurrence of sep (all of s if none)
RECURSIVE SplitLast(_, _)
SplitLast(s, sep) ==
    IF ~Contains(s, sep) THEN s
    ELSE LET i == CHOOSE k \in 1..(Len(s) - Len(sep) + 1) :
                      /\ SubSeq(s, k, k + Len(sep) - 1) = sep
                      /\ \A j \in 1..(k - 1) : SubSeq(s, j, j + Len(sep) - 1) # sep
         IN  SplitLast(SubSeq(s, i + Len(sep), Len(s)), sep)

AllDigits(s) == s # <<>> /\ \A i \in 1..Len(s) : IsDigit(s[i])

RECURSIVE DigitsVal(_)
DigitsVal(s) ==
    IF s = <<>> THEN 0
    ELSE 10 * DigitsVal(SubSeq(s, 1, Len(s) - 1)) + DigitVal(s[Len(s)])

\* Python int(s): surrounding whitespace and one sign are accepted, then
\* digits only; anything else raises ValueError.
IntOk(s) ==
    LET t == Strip(s)
        u == IF t # <<>> /\ Head(t) \in {"+", "-"} THEN Tail(t) ELSE t
    IN  AllDigits(u)

IntVal(s) ==
    LET t == Strip(s)
    IN  IF t # <<>> /\ Head(t) = "-" THEN 0 - DigitsVal(Tail(t))
        ELSE IF t # <<>> /\ Head(t) = "+" THEN DigitsVal(Tail(t))
        ELSE DigitsVal(t)

\* str(n) of an integer
RECURSIVE NatStr(_)
NatStr(n) ==
    IF n < 10 THEN <<DigitChars[n + 1]>>
    ELSE NatStr(n \div 10) \o <<DigitChars[(n % 10) + 1]>>

IntStr(n) == IF n < 0 THEN <<"-">> \o NatStr(0 - n) ELSE NatStr(n)

\* the leading run of digits of s
RECURSIVE DigitPrefix(_)
DigitPrefix(s) ==
    IF s # <<>> /\ IsDigit(Head(s)) THEN <<Head(s)>> \o DigitPrefix(Tail(s)) ELSE <<>>

\* str.extract(r'(\d+)'): the first run of digits, <<>> (missing) if none
RECURSIVE ExtractDigits(_)
ExtractDigits(s) ==
    IF s = <<>> THEN <<>>
    ELSE IF IsDigit(Head(s)) THEN DigitPrefix(s)
    ELSE ExtractDigits(Tail(s))

\* MySQL compares a text column with a number by converting the text: the
\* numeric prefix after leading spaces, 0 when there is none.
SqlNumVal(s) == DigitsVal(DigitPrefix(LStrip(s)))

CharCode(c) == CHOOSE i \in 1..Len(Alphabet) : Alphabet[i] = c

\* s < t, code point by code point (the order groupby and sort_values use)
RECURSIVE StrLess(_, _)
StrLess(s, t) ==
    IF t = <<>> THEN FALSE
    ELSE IF s = <<>> THEN TRUE
    ELSE IF Head(s) = Head(t) THEN StrLess(Tail(s), Tail(t))
    ELSE CharCode(Head(s)) < CharCode(Head(t))

-----------------------------------------------------------------------------
(* Dates: <<year, month, day>> *)

DateLess(a, b) ==
    \/ a[1] < b[1]
    \/ a[1] = b[1] /\ a[2] < b[2]
    \/ a[1] = b[1] /\ a[2] = b[2] /\ a[3] < b[3]

DateLE(a, b) == a = b \/ DateLess(a, b)

\* pd.to_datetime('YYYY-MM-DD')
ToDatetime(s) ==
    <<DigitsVal(SubSeq(s, 1, 4)), DigitsVal(SubSeq(s, 6, 7)), DigitsVal(SubSeq(s, 9, 10))>>

Pad2(n) == IF n < 10 THEN <<"0">> \o NatStr(n) ELSE NatStr(n)

\* strftime('%d/%m/%Y')
Strftime(f) == Pad2(f[3]) \o <<"/">> \o Pad2(f[2]) \o <<"/">> \o NatStr(f[1])

-----------------------------------------------------------------------------
(* Numbers.  A missing number (SQL NULL, NaN after coercion) is NaN in a   *)
(* table row.  A computed float is a rational <<n, d>> in lowest terms,    *)
(* d > 0; <<0, 0>> is NaN and <<1, 0>> is +inf (x / 0 in pandas).          *)

NaN == -1

RECURSIVE Gcd(_, _)
Gcd(a, b) == IF b = 0 THEN a ELSE Gcd(b, a % b)

Abs(n) == IF n < 0 THEN 0 - n ELSE n

Rat(n, d) ==
    IF d = 0 THEN (IF n = 0 THEN <<0, 0>> ELSE <<1, 0>>)
    ELSE LET g == Gcd(Abs(n), Abs(d))
             sgn == IF d < 0 THEN -1 ELSE 1
         IN  <<sgn * (n \div g), sgn * (d \div g)>>

RatNaN == <<0, 0>>
RatIsNaN(q) == q = <<0, 0>>
RatIsFinite(q) == q[2] > 0
RatAdd(p, q) == Rat(p[1] * q[2] + q[1] * p[2], p[2] * q[2])
RatGT0(q) == (q[2] > 0 /\ q[1] > 0) \/ q = <<1, 0>>

\* sum of f over a finite set
RECURSIVE SumF(_, _)
SumF(f, S) ==
    IF S = {} THEN 0
    ELSE LET x == CHOOSE x \in S : TRUE IN f[x] + SumF(f, S \ {x})

\* Series.sum(): missing values are skipped, an all-missing sum is 0
SumSkipNaN(rows, col) ==
    SumF([r \in rows |-> IF r[col] = NaN THEN 0 ELSE r[col]], rows)

RECURSIVE RatSumF(_, _)
RatSumF(f, S) ==
    IF S = {} THEN <<0, 1>>
    ELSE LET x == CHOOSE x \in S : TRUE IN RatAdd(f[x], RatSumF(f, S \ {x}))

\* Series.mean() of the rationals f[x], x in S: NaN are skipped, the mean of
\* nothing is NaN, an infinite value makes the mean infinite
RatMean(f, S) ==
    LET V == {x \in S : ~RatIsNaN(f[x])}
    IN  IF V = {} THEN RatNaN
        ELSE IF \E x \in V : ~RatIsFinite(f[x]) THEN <<1, 0>>
        ELSE LET t == RatSumF(f, V) IN Rat(t[1], t[2] * Cardinality(V))

-----------------------------------------------------------------------------
(* Envelopes, literals and the override table of the composer *)

SuccessEnvelope(data, message) ==
    [status |-> "success", data |-> data, message |-> message]

ErrorEnvelope(message) == [status |-> "error", message |-> message]

NoResp == [status |-> "none"]
NoText == <<>>          \* None where the code holds text
NoDate == <<0, 0, 0>>   \* None where the code holds a date

TxtJ == <<"J">>
TxtSemana == <<"S","e","m","a","n","a","_">>
TxtContra == <<"c","o","n","t","r","a">>
TxtRivalDesconocido ==
    <<"R","i","v","a","l"," ","d","e","s","c","o","n","o","c","i","d","o">>
TxtPartido == <<"P","a","r","t","i","d","o"," ">>
TxtBrVs == <<"<","b","r",">","V","S"," ">>
TxtMicrociclo == <<"M","i","c","r","o","c","i","c","l","o"," ">>

TiposDistancia == {"Distancia_total", "Distancia_HSR", "Distancia_Sprint"}

\* the columns of Datos_Fisicos_Entreno a SELECT may name
ColumnasEntreno ==
    {"Jornada", "Tarea", "Fecha", "Situacion", "Jugador", "Minutos_jugados",
     "Distancia_total", "Distancia_HSR", "Distancia_Sprint"}

\* config_especial: canonical round id -> override record
config_especial ==
    [k \in {<<"J","5">>, <<"J","6">>, <<"J","8">>, <<"J","9">>} |->
        CASE k = <<"J","5">> ->
                [fecha_inicio |-> <<"2","0","2","4","-","0","9","-","0","8">>,
                 mostrar_partido_previo |-> FALSE]
          [] k = <<"J","6">> ->
                [fecha_inicio |-> <<"2","0","2","4","-","0","9","-","2","2">>,
                 mostrar_partido_previo |-> FALSE]
          [] k = <<"J","8">> ->
                [partido_previo_custom |-> <<"J","9">>,
                 mostrar_partido_previo |-> TRUE]
          [] k = <<"J","9">> ->
                [fecha_inicio |-> <<"2","0","2","4","-","1","0","-","1","3">>,
                 mostrar_partido_previo |-> FALSE]]

\* config_especial.get(jornada_num, {})
ConfigJornada(jornada_num) ==
    IF jornada_num \in DOMAIN config_especial
    THEN config_especial[jornada_num]
    ELSE [vacio |-> TRUE]

-----------------------------------------------------------------------------
(* obtener_datos_microciclo_equipo: canonical round id and overrides *)

\* jornada_num: strip, drop "Semana_", prefix "J" unless already there
JornadaNum(jornada) ==
    LET jornada_str == Replace(Strip(jornada), TxtSemana, <<>>)
    IN  IF ~StartsWith(jornada_str, TxtJ) THEN TxtJ \o jornada_str ELSE jornada_str

\* variant: an empty number is taken as 0 instead of raising
JornadaNumIntOkVacio(jornada_num) ==
    Replace(jornada_num, TxtJ, <<>>) = <<>> \/ IntOk(Replace(jornada_num, TxtJ, <<>>))

\* whether int(jornada_num.replace('J', '')) succeeds, and its value
JornadaNumIntOk(jornada_num) == IntOk(Replace(jornada_num, TxtJ, <<>>))
JornadaNumInt(jornada_num) == IntVal(Replace(jornada_num, TxtJ, <<>>))

\* variant: the override record's partido_previo_custom is ignored
JornadaPrevNumSinConfig(jornada_num) ==
    IF JornadaNumInt(jornada_num) > 1
    THEN TxtJ \o IntStr(JornadaNumInt(jornada_num) - 1)
    ELSE NoText

\* jornada_prev_num: the reference previous round, NoText for None
JornadaPrevNum(jornada_num) ==
    LET config_jornada == ConfigJornada(jornada_num)
        n == JornadaNumInt(jornada_num)
    IN  IF "partido_previo_custom" \in DOMAIN config_jornada
        THEN config_jornada.partido_previo_custom
        ELSE IF n > 1 THEN TxtJ \o IntStr(n - 1) ELSE NoText

\* variant: the suppression flag of the override record is ignored
MostrarPartidoPrevioSiempre(jornada_num) == TRUE

\* config_jornada.get('mostrar_partido_previo', True)
MostrarPartidoPrevio(jornada_num) ==
    LET config_jornada == ConfigJornada(jornada_num)
    IN  IF "mostrar_partido_previo" \in DOMAIN config_jornada
        THEN config_jornada.mostrar_partido_previo
        ELSE TRUE

\* config_jornada.get('fecha_inicio', None)
FechaInicioCustom(jornada_num) ==
    LET config_jornada == ConfigJornada(jornada_num)
    IN  IF "fecha_inicio" \in DOMAIN config_jornada
        THEN config_jornada.fecha_inicio
        ELSE NoText

-----------------------------------------------------------------------------
(* The composer's queries *)

JugadorPresente(r) == r.Jugador # "NULL" /\ r.Jugador # ""

\* WHERE (Jornada = %s OR Jornada = %s OR Jornada LIKE %s), the second
\* parameter being the integer
JornadaCoincide(Jornada, jornada_num, jornada_num_int) ==
    \/ Jornada = jornada_num
    \/ SqlNumVal(Jornada) = jornada_num_int
    \/ Contains(Jornada, IntStr(jornada_num_int))

\* the J1 form of the training query: three exact comparisons
JornadaCoincideJ1(Jornada, jornada_num, jornada_num_int) ==
    \/ Jornada = jornada_num
    \/ SqlNumVal(Jornada) = jornada_num_int
    \/ Jornada = TxtSemana \o jornada_num

\* training rows of the selected round, task 'Total', player present
ConsultaEntrenos(jornada_num, jornada_num_int) ==
    {r \in entrenos :
        /\ IF jornada_num = <<"J","1">>
           THEN JornadaCoincideJ1(r.Jornada, jornada_num, jornada_num_int)
           ELSE JornadaCoincide(r.Jornada, jornada_num, jornada_num_int)
        /\ r.Tarea = "Total"
        /\ JugadorPresente(r)}

\* Tarea IN ('1a parte', '2a parte', '1 a parte', '2 a parte')
\* ("a" stands for the ordinal sign of the source)
TareasParteSQL == {"1a parte", "2a parte", "1 a parte", "2 a parte"}

\* match-half rows of the reference previous round
ConsultaPartidoPrevio(jornada_prev_num, jornada_prev_num_int) ==
    {r \in partidos :
        /\ JornadaCoincide(r.Jornada, jornada_prev_num, jornada_prev_num_int)
        /\ r.Tarea \in TareasParteSQL
        /\ JugadorPresente(r)}

\* variant: the current-match query without its WHERE clause
ConsultaPartidoActualSinFiltro(jornada_num) == partidos

\* rows of the current round: WHERE Jornada = %s (LIMIT 1 picks any of them)
ConsultaPartidoActual(jornada_num) == {r \in partidos : r.Jornada = jornada_num}

-----------------------------------------------------------------------------
(* Eligibility, aggregation per player, standardization *)

UmbralMinutos == 70
factor_estandarizacion == 94

\* variant: the comparison of the fixed rule turned round
SuperaUmbralInvertido(minutos, umbral) == minutos < umbral

\* the fixed rule df[col > N] on summed minutes, N being the literal of the
\* call site
SuperaUmbral(minutos, umbral) == minutos > umbral

\* variant: the threshold taken as inclusive
ElegibleDesde70(minutos) == minutos >= UmbralMinutos

\* df[df['Minutos_jugados'] > 70]
Elegible(minutos) == SuperaUmbral(minutos, UmbralMinutos)

\* variant: standardized to 90 minutes instead of 94
EstandarizarA90(distancia, minutos) == Rat(distancia * 90, minutos)

\* (distancia / minutos) * 94, as pandas divides: x / 0 is inf or NaN
Estandarizar(distancia, minutos) == Rat(distancia * factor_estandarizacion, minutos)

\* groupby(...).agg(sum) of one group: the rows rs of one player
SumarJugador(jornada, partido, jugador, rs) ==
    [Jornada |-> jornada, Partido |-> partido, Jugador |-> jugador,
     Minutos_jugados |-> SumSkipNaN(rs, "Minutos_jugados"),
     Distancia_total |-> SumSkipNaN(rs, "Distancia_total"),
     Distancia_HSR |-> SumSkipNaN(rs, "Distancia_HSR"),
     Distancia_Sprint |-> SumSkipNaN(rs, "Distancia_Sprint")]

\* the three *_Std columns added to an aggregate
ConStd(a) ==
    [Jornada |-> a.Jornada, Partido |-> a.Partido, Jugador |-> a.Jugador,
     Minutos_jugados |-> a.Minutos_jugados,
     Distancia_total |-> a.Distancia_total,
     Distancia_HSR |-> a.Distancia_HSR,
     Distancia_Sprint |-> a.Distancia_Sprint,
     Distancia_total_Std |-> Estandarizar(a.Distancia_total, a.Minutos_jugados),
     Distancia_HSR_Std |-> Estandarizar(a.Distancia_HSR, a.Minutos_jugados),
     Distancia_Sprint_Std |-> Estandarizar(a.Distancia_Sprint, a.Minutos_jugados)]

StdCol(tipo_distancia) ==
    CASE tipo_distancia = "Distancia_total" -> "Distancia_total_Std"
      [] tipo_distancia = "Distancia_HSR" -> "Distancia_HSR_Std"
      [] tipo_distancia = "Distancia_Sprint" -> "Distancia_Sprint_Std"

\* mean of one *_Std column over the aggregates A
MediaStd(A, col) == RatMean([a \in A |-> a[col]], A)

\* text after the marker "contra", trimmed; the placeholder otherwise
ExtraerRival(partido_text) ==
    IF partido_text # NoText /\ Contains(partido_text, TxtContra)
    THEN Strip(SplitLast(partido_text, TxtContra))
    ELSE TxtRivalDesconocido

-----------------------------------------------------------------------------
(* Reference previous match of the composer *)

\* df_partido_prev.groupby('Jugador')['Minutos_jugados'].sum()
MinutosPorJugador(rows) ==
    {SumarJugador(NoText, NoText, j, {r \in rows : r.Jugador = j}) :
        j \in {r.Jugador : r \in rows}}

\* jugadores_validos
JugadoresValidos(rows) ==
    {a.Jugador : a \in {m \in MinutosPorJugador(rows) : Elegible(m.Minutos_jugados)}}

\* df_por_jugador with its standardized columns
PorJugadorPrevio(rows) ==
    LET validos == JugadoresValidos(rows)
        df_validos == {r \in rows : r.Jugador \in validos}
    IN  {ConStd(SumarJugador(NoText, NoText, j, {r \in df_validos : r.Jugador = j})) :
            j \in validos}

\* distancia_partido_previo: 0 unless there are valid players and the kind
\* is one of the three distances
DistanciaPartidoPrevio(rows, tipo_distancia) ==
    LET A == PorJugadorPrevio(rows)
    IN  IF A # {} /\ tipo_distancia \in TiposDistancia
        THEN MediaStd(A, StdCol(tipo_distancia))
        ELSE <<0, 1>>

-----------------------------------------------------------------------------
(* Training entries of the composer: the mode-70pct rule *)

MinutosPresentes(grupo) == {r.Minutos_jugados : r \in {x \in grupo : x.Minutos_jugados # NaN}}

Frecuencia(grupo, v) == Cardinality({r \in grupo : r.Minutos_jugados = v})

\* variant: the largest of the most frequent values on a tie
ModaMayor(grupo) ==
    CHOOSE v \in MinutosPresentes(grupo) :
        /\ \A w \in MinutosPresentes(grupo) : Frecuencia(grupo, w) <= Frecuencia(grupo, v)
        /\ \A w \in MinutosPresentes(grupo) :
              Frecuencia(grupo, w) = Frecuencia(grupo, v) => w <= v

\* Series.mode().iloc[0]: the most frequent value, the smallest on a tie
Moda(grupo) ==
    CHOOSE v \in MinutosPresentes(grupo) :
        /\ \A w \in MinutosPresentes(grupo) : Frecuencia(grupo, w) <= Frecuencia(grupo, v)
        /\ \A w \in MinutosPresentes(grupo) :
              Frecuencia(grupo, w) = Frecuencia(grupo, v) => v <= w

\* variant: the 70 % threshold taken as strict
CumpleUmbralEstricto(minutos, valor_mas_frecuente) ==
    minutos # NaN /\ 10 * minutos > 7 * valor_mas_frecuente

\* Minutos_jugados >= valor_mas_frecuente * 0.7 (a missing value never is)
CumpleUmbral70Pct(minutos, valor_mas_frecuente) ==
    minutos # NaN /\ 10 * minutos >= 7 * valor_mas_frecuente

GrupoFiltrado(grupo) ==
    {r \in grupo : CumpleUmbral70Pct(r.Minutos_jugados, Moda(grupo))}

\* grupo_filtrado[tipo_distancia].mean()
PromedioDistancia(rows, tipo_distancia) ==
    RatMean([r \in rows |-> IF r[tipo_distancia] = NaN THEN RatNaN
                            ELSE <<r[tipo_distancia], 1>>], rows)

\* the (Situacion, Fecha) keys of the groups, and one group
ClavesGrupos(df) == {<<r.Situacion, r.Fecha>> : r \in df}
Grupo(df, k) == {r \in df : r.Situacion = k[1] /\ r.Fecha = k[2]}

ClaveMenor(a, b) ==
    \/ StrLess(a[1], b[1])
    \/ a[1] = b[1] /\ DateLess(a[2], b[2])

\* groupby iterates the groups in key order
RECURSIVE ClavesOrdenadas(_)
ClavesOrdenadas(K) ==
    IF K = {} THEN <<>>
    ELSE LET k == CHOOSE x \in K : \A y \in K \ {x} : ClaveMenor(x, y)
         IN  <<k>> \o ClavesOrdenadas(K \ {k})

\* the entry of one group, <<>> when the group yields none
EntradaEntreno(df, k, tipo_distancia) ==
    LET grupo == Grupo(df, k)
    IN  IF MinutosPresentes(grupo) = {} THEN <<>>
        ELSE LET grupo_filtrado == GrupoFiltrado(grupo)
             IN  IF grupo_filtrado = {} THEN <<>>
                 ELSE <<[Situacion |-> k[1], Fecha |-> k[2],
                         distancia |-> PromedioDistancia(grupo_filtrado, tipo_distancia),
                         num_registros |-> Cardinality(grupo_filtrado),
                         tipo |-> "entrenamiento"]>>

RECURSIVE EntradasEntreno(_, _, _)
EntradasEntreno(df, claves, tipo_distancia) ==
    IF claves = <<>> THEN <<>>
    ELSE EntradaEntreno(df, Head(claves), tipo_distancia)
            \o EntradasEntreno(df, Tail(claves), tipo_distancia)

\* variant: rows dated on the custom start date are dropped too
FiltrarFechaInicioEstricto(df, fecha_inicio_custom) ==
    IF fecha_inicio_custom # NoText
    THEN {r \in df : DateLess(ToDatetime(fecha_inicio_custom), r.Fecha)}
    ELSE df

\* df_entrenos after the optional custom start date
FiltrarFechaInicio(df, fecha_inicio_custom) ==
    IF fecha_inicio_custom # NoText
    THEN {r \in df : DateLE(ToDatetime(fecha_inicio_custom), r.Fecha)}
    ELSE df

-----------------------------------------------------------------------------
(* Assembling the composer's answer *)

\* variant: the entry is appended whenever the reference match has a date
EntradaPartidoSinUmbral(prev, rival_prev, fecha_prev, distancia_prev, num_jugadores_prev) ==
    IF fecha_prev # NoDate
    THEN <<[Situacion |-> TxtPartido \o prev \o TxtBrVs \o rival_prev,
            Fecha |-> fecha_prev,
            distancia |-> distancia_prev,
            num_registros |-> num_jugadores_prev,
            tipo |-> "partido"]>>
    ELSE <<>>

\* the previous-match entry, <<>> when the code appends none
EntradaPartido(prev, rival_prev, fecha_prev, distancia_prev, num_jugadores_prev) ==
    IF fecha_prev # NoDate /\ RatGT0(distancia_prev)
    THEN <<[Situacion |-> TxtPartido \o prev \o TxtBrVs \o rival_prev,
            Fecha |-> fecha_prev,
            distancia |-> distancia_prev,
            num_registros |-> num_jugadores_prev,
            tipo |-> "partido"]>>
    ELSE <<>>

\* variant: the entries left in the order they were appended
SinOrdenar(datos) == {datos}

\* df_datos.sort_values('Fecha'): the default sort is not stable, so entries
\* of equal date may come out in any order
OrdenarPorFecha(datos) ==
    {[i \in 1..Len(datos) |-> datos[p[i]]] :
        p \in {q \in Permutations(1..Len(datos)) :
                  \A i, j \in 1..Len(datos) :
                      i < j => DateLE(datos[q[i]].Fecha, datos[q[j]].Fecha)}}

\* df_datos[campo].tolist()
Columna(df_datos, campo) == [i \in 1..Len(df_datos) |-> df_datos[i][campo]]

TipoDistanciaLabel(tipo_distancia) ==
    CASE tipo_distancia = "Distancia_total" -> "Distancia Total"
      [] tipo_distancia = "Distancia_HSR" -> "Distancia HSR"
      [] tipo_distancia = "Distancia_Sprint" -> "Distancia Sprint"
      [] OTHER -> tipo_distancia

FechaMinima(df) == CHOOSE f \in {r.Fecha : r \in df} : \A r \in df : DateLE(f, r.Fecha)

\* variant: the earliest training date preferred to the previous-match date
FechaInicioStrEntrenosPrimero(fecha_inicio_custom, fecha_partido_previo, df_entrenos, fecha_partido_actual) ==
    IF fecha_inicio_custom # NoText THEN Strftime(ToDatetime(fecha_inicio_custom))
    ELSE IF df_entrenos # {} THEN Strftime(FechaMinima(df_entrenos))
    ELSE IF fecha_partido_previo # NoDate THEN Strftime(fecha_partido_previo)
    ELSE Strftime(fecha_partido_actual)

\* start of the range: override date, else previous-match date, else the
\* earliest training date, else the current match date
FechaInicioStr(fecha_inicio_custom, fecha_partido_previo, df_entrenos, fecha_partido_actual) ==
    IF fecha_inicio_custom # NoText THEN Strftime(ToDatetime(fecha_inicio_custom))
    ELSE IF fecha_partido_previo # NoDate THEN Strftime(fecha_partido_previo)
    ELSE IF df_entrenos # {} THEN Strftime(FechaMinima(df_entrenos))
    ELSE Strftime(fecha_partido_actual)

\* f"Microciclo {jornada_num} - {rival} ({fecha_inicio_str} - {fecha_fin_str})"
MicrocicloLabel(jornada_num, rival, fecha_inicio_str, fecha_fin_str) ==
    TxtMicrociclo \o jornada_num \o <<" ", "-", " ">> \o rival \o <<" ", "(">>
        \o fecha_inicio_str \o <<" ", "-", " ">> \o fecha_fin_str \o <<")">>

LocalsVacio ==
    [jornada_num |-> NoText, jornada_prev_num |-> NoText,
     mostrar_partido_previo |-> TRUE, fecha_inicio_custom |-> NoText,
     rows |-> {}, df_entrenos |-> {},
     fecha_partido_previo |-> NoDate, rival_partido_previo |-> NoText,
     fecha_partido_actual |-> NoDate, rival |-> NoText,
     conexion |-> "ninguna"]

Salida(r, dj, dm, q, l) ==
    [resp |-> r, df_jugadores |-> dj, datos_microciclo |-> dm, queries |-> q, locals |-> l]

\* the except clause: the error envelope, nothing else
Fallo(message, q, l) == Salida(ErrorEnvelope(message), {}, <<>>, q, l)

\* the queries one SELECT issues: the diagnostic ones follow an empty result
ConDiagnostico(nombre, filas) ==
    IF filas = {} THEN <<nombre, nombre \o "_jornadas", nombre \o "_detalle">>
    ELSE <<nombre>>

\* variant: the connection is left as it is when the operation returns
FinallySinCerrar(l) == l

\* finally: connection.close(), on the way out of the inner try
Finally(l) == [l EXCEPT !.conexion = "cerrada"]

\* the success path once the current match row is known; `primera` is the
\* row the unordered previous-match result lists first
MicrocicloExito(jornada, tipo_distancia, jornada_num, df0, rows_prev, q, primera, actual) ==
    LET jornada_prev_num == JornadaPrevNum(jornada_num)
        fecha_inicio_custom == FechaInicioCustom(jornada_num)
        fecha_partido_previo == IF rows_prev # {} THEN primera.Fecha ELSE NoDate
        rival_partido_previo ==
            IF rows_prev # {} THEN ExtraerRival(primera.Partido) ELSE TxtRivalDesconocido
        df_por_jugador == PorJugadorPrevio(rows_prev)
        distancia_partido_previo == DistanciaPartidoPrevio(rows_prev, tipo_distancia)
        fecha_partido_actual == actual.Fecha
        rival == ExtraerRival(actual.Partido)
        df_entrenos == FiltrarFechaInicio(df0, fecha_inicio_custom)
        datos ==
            EntradaPartido(jornada_prev_num, rival_partido_previo, fecha_partido_previo,
                           distancia_partido_previo, Cardinality(JugadoresValidos(rows_prev)))
            \o EntradasEntreno(df_entrenos, ClavesOrdenadas(ClavesGrupos(df_entrenos)),
                               tipo_distancia)
        microciclo_label ==
            MicrocicloLabel(jornada_num, rival,
                FechaInicioStr(fecha_inicio_custom, fecha_partido_previo, df_entrenos,
                               fecha_partido_actual),
                Strftime(fecha_partido_actual))
        l == Finally([jornada_num |-> jornada_num, jornada_prev_num |-> jornada_prev_num,
              mostrar_partido_previo |-> MostrarPartidoPrevio(jornada_num),
              fecha_inicio_custom |-> fecha_inicio_custom,
              rows |-> rows_prev, df_entrenos |-> df_entrenos,
              fecha_partido_previo |-> fecha_partido_previo,
              rival_partido_previo |-> rival_partido_previo,
              fecha_partido_actual |-> fecha_partido_actual, rival |-> rival,
              conexion |-> "abierta"])
    IN  {Salida(SuccessEnvelope(
                    [situaciones |-> Columna(df_datos, "Situacion"),
                     distancias |-> Columna(df_datos, "distancia"),
                     num_registros |-> Columna(df_datos, "num_registros"),
                     fechas |-> [i \in 1..Len(df_datos) |-> Strftime(df_datos[i].Fecha)],
                     tipos |-> Columna(df_datos, "tipo"),
                     tipo_distancia |-> tipo_distancia,
                     tipo_distancia_label |-> TipoDistanciaLabel(tipo_distancia),
                     jornada |-> jornada,
                     microciclo_label |-> microciclo_label],
                    "Datos del microciclo obtenidos correctamente"),
                df_por_jugador, datos, q, l) :
            df_datos \in OrdenarPorFecha(datos)}

\* every answer obtener_datos_microciclo_equipo(jornada, tipo_distancia) can
\* give on the current tables; `conecta` is whether _conectar_bd succeeds
MicrocicloResultados(jornada, tipo_distancia, conecta) ==
    IF jornada = <<>> THEN
        {Fallo("Se requiere especificar una jornada", <<>>, LocalsVacio)}
    ELSE IF ~conecta THEN
        {Fallo("No se pudo conectar a la base de datos", <<>>, LocalsVacio)}
    ELSE
    LET jornada_num == JornadaNum(jornada)
        cerrada ==
            Finally([LocalsVacio EXCEPT !.jornada_num = jornada_num, !.conexion = "abierta"])
    IN  IF ~JornadaNumIntOk(jornada_num) THEN
            {Fallo("invalid literal for int()", <<>>, cerrada)}
        ELSE IF tipo_distancia \notin ColumnasEntreno THEN
            {Fallo("Unknown column", <<"entrenos">>, cerrada)}
        ELSE
        LET jornada_num_int == JornadaNumInt(jornada_num)
            jornada_prev_num == JornadaPrevNum(jornada_num)
            df0 == ConsultaEntrenos(jornada_num, jornada_num_int)
            busca_previo == jornada_prev_num # NoText /\ MostrarPartidoPrevio(jornada_num)
            rows_prev ==
                IF busca_previo
                THEN ConsultaPartidoPrevio(jornada_prev_num, JornadaNumInt(jornada_prev_num))
                ELSE {}
            q == ConDiagnostico("entrenos", df0)
                 \o (IF busca_previo THEN ConDiagnostico("partido_previo", rows_prev) ELSE <<>>)
                 \o <<"partido_actual">>
            actuales == ConsultaPartidoActual(jornada_num)
        IN  IF actuales = {} THEN
                {Fallo("No se encontro partido para la jornada", q,
                       [cerrada EXCEPT !.jornada_prev_num = jornada_prev_num,
                                       !.rows = rows_prev, !.df_entrenos = df0])}
            ELSE
                UNION {UNION {MicrocicloExito(jornada, tipo_distancia, jornada_num, df0,
                                              rows_prev, q, primera, actual) :
                                 actual \in actuales} :
                          primera \in (IF rows_prev = {} THEN actuales ELSE rows_prev)}

\* GET /api/microciclos/equipo
ObtenerDatosMicrocicloEquipo(jornada, tipo_distancia, conecta) ==
    \E s \in MicrocicloResultados(jornada, tipo_distancia, conecta) :
        /\ op' = "obtener_datos_microciclo_equipo"
        /\ args' = [jornada |-> jornada, tipo_distancia |-> tipo_distancia,
                    conecta |-> conecta]
        /\ resp' = s.resp
        /\ df_jugadores' = s.df_jugadores
        /\ datos_microciclo' = s.datos_microciclo
        /\ queries' = s.queries
        /\ locals' = s.locals
        /\ UNCHANGED <<partidos, entrenos, resultados, servidor>>

-----------------------------------------------------------------------------
(* Loading the tables: direct SQL, or the generic loader *)

TxtNan == <<"n","a","n">>

\* load_from_database on Jornada: the first run of digits, as a number; the
\* column is float when some value is missing.  The result is given as the
\* text astype(str) makes of it afterwards ("9", "9.0", "nan").
JornadaCargada(jornada, flotante) ==
    LET d == ExtractDigits(jornada)
    IN  IF d = <<>> THEN TxtNan
        ELSE IntStr(DigitsVal(d)) \o (IF flotante THEN <<".","0">> ELSE <<>>)

HayJornadaSinNumero(tabla) == \E r \in tabla : ExtractDigits(r.Jornada) = <<>>

\* text columns: astype(str).str.strip(), which turns a missing player into
\* 'None' and a player of blanks into the empty text
JugadorCargado(jugador) ==
    IF jugador = "NULL" THEN "None" ELSE IF jugador = " " THEN "" ELSE jugador

CargarPartidos(tabla) ==
    {[r EXCEPT !.Jornada = JornadaCargada(r.Jornada, HayJornadaSinNumero(tabla)),
               !.Partido = Strip(r.Partido),
               !.Jugador = JugadorCargado(r.Jugador)] : r \in tabla}

\* df_p of the match views: _obtener_datos_partidos_bd, and load_excel_data
\* when that came back empty; ok is FALSE when the loader raises
DatosPartidos(sql_ok, loader_ok) ==
    IF sql_ok /\ partidos # {} THEN [ok |-> TRUE, df |-> partidos]
    ELSE IF loader_ok THEN [ok |-> TRUE, df |-> CargarPartidos(partidos)]
    ELSE [ok |-> FALSE, df |-> {}]

\* _obtener_resultados: the loaded table with Jornada stripped and
\* upper-cased, the empty frame when loading fails
ObtenerResultados(loader_ok) ==
    IF ~loader_ok THEN {}
    ELSE {[Jornada |-> Upper(Strip(JornadaCargada(r.Jornada, HayJornadaSinNumero(resultados)))),
           Codigo |-> r.Codigo,
           Resultado |-> Strip(r.Resultado)] : r \in resultados}

\* Tarea, lower-cased and trimmed, matches ^(?:1|2)\s*a?\s*parte$
TareasParte ==
    TareasParteSQL \cup {"1 parte", "2 parte", "1parte", "2parte", "1aparte", "2aparte"}

EsParte(tarea) == tarea \in TareasParte

-----------------------------------------------------------------------------
(* generar_barras_colectivas *)

ClavesJugador(df) == {<<r.Jornada, r.Partido, r.Jugador>> : r \in df}

\* groupby(["Jornada", "Partido", "Jugador"]).agg(sum)
AgruparJugadores(df) ==
    {SumarJugador(k[1], k[2], k[3],
                  {r \in df : r.Jornada = k[1] /\ r.Partido = k[2] /\ r.Jugador = k[3]}) :
        k \in ClavesJugador(df)}

\* steps 7 and 8: the players over the threshold, standardized
JugadoresEstandarizados(df) ==
    {ConStd(a) : a \in {x \in AgruparJugadores(df) : Elegible(x.Minutos_jugados)}}

\* step 9: one row per (Jornada, Partido)
PorPartido(dj) ==
    {LET g == {a \in dj : a.Jornada = k[1] /\ a.Partido = k[2]}
     IN  [Jornada |-> k[1], Partido |-> k[2],
          Distancia_total |-> MediaStd(g, "Distancia_total_Std"),
          Distancia_HSR |-> MediaStd(g, "Distancia_HSR_Std"),
          Distancia_Sprint |-> MediaStd(g, "Distancia_Sprint_Std"),
          num_jugadores |-> Cardinality(g)] :
        k \in {<<a.Jornada, a.Partido>> : a \in dj}}

ConResultado(p, codigo, resultado) ==
    [Jornada |-> p.Jornada, Partido |-> p.Partido,
     Distancia_total |-> p.Distancia_total, Distancia_HSR |-> p.Distancia_HSR,
     Distancia_Sprint |-> p.Distancia_Sprint, num_jugadores |-> p.num_jugadores,
     Codigo |-> codigo, Resultado |-> resultado]

TxtNA == <<"N","/","A">>

\* variant: an inner merge, which loses the rows without an outcome
UnirResultadosInterno(df_por_partido, df_r) ==
    UNION {{ConResultado(p, r.Codigo, r.Resultado) : r \in {x \in df_r : x.Jornada = p.Jornada}} :
              p \in df_por_partido}

\* step 10: no results at all, or the left merge on Jornada; a row without
\* a match keeps missing values, which astype(str) later spells 'nan'
UnirResultados(df_por_partido, df_r) ==
    IF df_r = {} THEN {ConResultado(p, NaN, TxtNA) : p \in df_por_partido}
    ELSE UNION {LET m == {r \in df_r : r.Jornada = p.Jornada}
                IN  IF m = {} THEN {ConResultado(p, NaN, TxtNan)}
                    ELSE {ConResultado(p, r.Codigo, r.Resultado) : r \in m} :
                   p \in df_por_partido}

\* J_orden: the first integer of the round id; <<>> when there is none
\* (astype(int) then raises)
JOrden(jornada) == ExtractDigits(jornada)

RECURSIVE Ascendente(_)
Ascendente(S) ==
    IF S = {} THEN <<>>
    ELSE LET m == CHOOSE x \in S : \A y \in S : x <= y
         IN  <<m>> \o Ascendente(S \ {m})

\* variant: plain ascending order, without the 9-before-8 exception
OrdenJornadasAscendente(jornadas_unicas) == Ascendente(jornadas_unicas)

\* orden_jornadas: ascending, with round 9 placed before round 8
OrdenJornadas(jornadas_unicas) ==
    Ascendente({j \in jornadas_unicas : j < 8})
        \o (IF 9 \in jornadas_unicas THEN <<9>> ELSE <<>>)
        \o (IF 8 \in jornadas_unicas THEN <<8>> ELSE <<>>)
        \o Ascendente({j \in jornadas_unicas : j > 9})

Posicion(orden, j) == CHOOSE i \in 1..Len(orden) : orden[i] = j

\* order of sort_values(["J_orden", "Partido"], kind="stable") on the merged
\* frame, itself in (Jornada, Partido) order
FilaMenor(a, b, orden) ==
    LET pa == Posicion(orden, DigitsVal(JOrden(a.Jornada)))
        pb == Posicion(orden, DigitsVal(JOrden(b.Jornada)))
    IN  \/ pa < pb
        \/ pa = pb /\ StrLess(a.Partido, b.Partido)
        \/ pa = pb /\ a.Partido = b.Partido /\ StrLess(a.Jornada, b.Jornada)

\* the rows of M in that order; rows the order does not separate (several
\* outcomes of one round) come in the order the results table lists them
RECURSIVE Ordenadas(_, _)
Ordenadas(M, orden) ==
    IF M = {} THEN {<<>>}
    ELSE UNION {{<<x>> \o t : t \in Ordenadas(M \ {x}, orden)} :
                   x \in {y \in M : \A z \in M : ~FilaMenor(z, y, orden)}}

\* variant: the outcome trimmed but not upper-cased
SoloRecortar(resultado) == Strip(resultado)

\* astype(str).str.strip().str.upper() of the outcome
NormalizarResultado(resultado) == Upper(Strip(resultado))

\* color_map, gray for anything else
ColorResultado(resultado) ==
    CASE resultado = <<"V">> -> "#4CAF50"
      [] resultado = <<"E">> -> "#FFC107"
      [] resultado = <<"D">> -> "#DC143C"
      [] OTHER -> "#9e9e9e"

\* Series.round(0): to the nearest integer, halves to the even one
Round0(q) ==
    IF ~RatIsFinite(q) THEN q
    ELSE LET fl == q[1] \div q[2]
             r2 == 2 * (q[1] - fl * q[2])
         IN  IF r2 < q[2] THEN <<fl, 1>>
             ELSE IF r2 > q[2] THEN <<fl + 1, 1>>
             ELSE IF fl % 2 = 0 THEN <<fl, 1>> ELSE <<fl + 1, 1>>

\* fillna("") of Codigo
CodigoTexto(codigo) == IF codigo = NaN THEN <<>> ELSE IntStr(codigo)

MediaColumna(df_plot, col) ==
    RatMean([i \in 1..Len(df_plot) |-> df_plot[i][col]], 1..Len(df_plot))

DatosBarras(df_plot) ==
    [jornadas |-> Columna(df_plot, "Jornada"),
     codigos |-> [i \in 1..Len(df_plot) |-> CodigoTexto(df_plot[i].Codigo)],
     distancia_total |-> [i \in 1..Len(df_plot) |-> Round0(df_plot[i].Distancia_total)],
     distancia_hsr |-> [i \in 1..Len(df_plot) |-> Round0(df_plot[i].Distancia_HSR)],
     distancia_sprint |-> [i \in 1..Len(df_plot) |-> Round0(df_plot[i].Distancia_Sprint)],
     colores |-> [i \in 1..Len(df_plot) |->
                     ColorResultado(NormalizarResultado(df_plot[i].Resultado))],
     resultados |-> [i \in 1..Len(df_plot) |-> NormalizarResultado(df_plot[i].Resultado)],
     num_jugadores |-> Columna(df_plot, "num_jugadores"),
     promedio_total |-> MediaColumna(df_plot, "Distancia_total"),
     promedio_hsr |-> MediaColumna(df_plot, "Distancia_HSR"),
     promedio_sprint |-> MediaColumna(df_plot, "Distancia_Sprint")]

\* steps 2 to 5: match-half rows, Jornada stripped and upper-cased, players present
FilasPartes(df_p) ==
    {[r EXCEPT !.Jornada = Upper(Strip(r.Jornada))] :
        r \in {x \in df_p : EsParte(x.Tarea) /\ x.Jugador # "NULL"}}

LocalsFilas(rows) == [LocalsVacio EXCEPT !.rows = rows]

\* every answer generar_barras_colectivas can give on the current tables
BarrasResultados(sql_ok, loader_ok, resultados_ok) ==
    LET datos == DatosPartidos(sql_ok, loader_ok)
    IN  IF ~datos.ok THEN {Fallo("Error cargando desde base de datos", <<>>, LocalsVacio)}
        ELSE IF {x \in datos.df : EsParte(x.Tarea)} = {} THEN
            {Fallo("No hay filas con Tarea 1a/2a parte", <<>>, LocalsVacio)}
        ELSE
        LET df_p_f == FilasPartes(datos.df)
            dj == JugadoresEstandarizados(df_p_f)
        IN  IF dj = {} THEN
                {Fallo("No hay jugadores con mas de 70 minutos", <<>>, LocalsFilas(df_p_f))}
            ELSE
            LET df_merge == UnirResultados(PorPartido(dj), ObtenerResultados(resultados_ok))
            IN  IF \E p \in df_merge : JOrden(p.Jornada) = <<>> THEN
                    {Fallo("cannot convert float NaN to integer", <<>>, LocalsFilas(df_p_f))}
                ELSE
                LET orden == OrdenJornadas({DigitsVal(JOrden(p.Jornada)) : p \in df_merge})
                IN  {Salida(SuccessEnvelope(DatosBarras(df_plot),
                                            "Datos generados correctamente"),
                            dj, <<>>, <<>>, LocalsFilas(df_p_f)) :
                        df_plot \in Ordenadas(df_merge, orden)}

\* GET /api/fisicos/barras-colectivas
GenerarBarrasColectivas(sql_ok, loader_ok, resultados_ok) ==
    \E s \in BarrasResultados(sql_ok, loader_ok, resultados_ok) :
        /\ op' = "generar_barras_colectivas"
        /\ args' = [sql_ok |-> sql_ok, loader_ok |-> loader_ok,
                    resultados_ok |-> resultados_ok]
        /\ resp' = s.resp
        /\ df_jugadores' = s.df_jugadores
        /\ datos_microciclo' = s.datos_microciclo
        /\ queries' = s.queries
        /\ locals' = s.locals
        /\ UNCHANGED <<partidos, entrenos, resultados, servidor>>

-----------------------------------------------------------------------------
(* generar_scatter_individual *)

\* df_partido.groupby('Jugador').agg(sum); rows without a player form no group
AgruparPorJugador(df) ==
    {SumarJugador(NoText, NoText, j, {r \in df : r.Jugador = j}) :
        j \in {r.Jugador : r \in {x \in df : x.Jugador # "NULL"}}}

\* df_agg: the players over the threshold
JugadoresScatter(df) == {a \in AgruparPorJugador(df) : Elegible(a.Minutos_jugados)}

MediaEnteros(A, col) == RatMean([a \in A |-> <<a[col], 1>>], A)

\* the rows sort_values('Fecha', ascending=False) may list first
MasRecientes(df) == {r \in df : \A x \in df : DateLE(x.Fecha, r.Fecha)}

\* the answers for one chosen match; the players are given as a set
ScatterDePartido(df_p, partido) ==
    LET df_partido == {r \in df_p : r.Partido = partido /\ EsParte(r.Tarea)}
        df_agg == JugadoresScatter(df_partido)
    IN  IF df_partido = {} THEN
            Fallo("No hay datos para el partido", <<>>, LocalsVacio)
        ELSE IF df_agg = {} THEN
            Fallo("No hay jugadores con mas de 70 minutos en el partido", <<>>,
                  LocalsFilas(df_partido))
        ELSE
            Salida(SuccessEnvelope(
                       [jugadores |-> {[jugador |-> a.Jugador,
                                        minutos_jugados |-> a.Minutos_jugados,
                                        distancia_total |-> a.Distancia_total,
                                        distancia_hsr |-> a.Distancia_HSR,
                                        distancia_sprint |-> a.Distancia_Sprint] :
                                          a \in df_agg},
                        partido |-> partido,
                        num_jugadores |-> Cardinality(df_agg),
                        mean_x |-> MediaEnteros(df_agg, "Distancia_total"),
                        mean_y |-> MediaEnteros(df_agg, "Distancia_HSR")],
                       "Datos procesados correctamente"),
                   df_agg, <<>>, <<>>, LocalsFilas(df_partido))

\* every answer generar_scatter_individual(partido) can give; NoText is None
ScatterResultados(partido, sql_ok, loader_ok) ==
    LET datos == DatosPartidos(sql_ok, loader_ok)
    IN  IF ~datos.ok THEN {Fallo("Error cargando desde base de datos", <<>>, LocalsVacio)}
        ELSE IF partido # NoText THEN {ScatterDePartido(datos.df, partido)}
        ELSE IF datos.df = {} THEN
            {Fallo("single positional indexer is out-of-bounds", <<>>, LocalsVacio)}
        ELSE {ScatterDePartido(datos.df, r.Partido) : r \in MasRecientes(datos.df)}

\* GET /api/fisicos/scatter-individual
GenerarScatterIndividual(partido, sql_ok, loader_ok) ==
    \E s \in ScatterResultados(partido, sql_ok, loader_ok) :
        /\ op' = "generar_scatter_individual"
        /\ args' = [partido |-> partido, sql_ok |-> sql_ok, loader_ok |-> loader_ok]
        /\ resp' = s.resp
        /\ df_jugadores' = s.df_jugadores
        /\ datos_microciclo' = s.datos_microciclo
        /\ queries' = s.queries
        /\ locals' = s.locals
        /\ UNCHANGED <<partidos, entrenos, resultados, servidor>>

-----------------------------------------------------------------------------
(* obtener_lista_partidos *)

\* all the orders the elements of a finite set can be listed in
RECURSIVE Enumeraciones(_)
Enumeraciones(S) ==
    IF S = {} THEN {<<>>}
    ELSE UNION {{<<x>> \o t : t \in Enumeraciones(S \ {x})} : x \in S}

\* drop_duplicates() of (Partido, Fecha, Jornada), then
\* sort_values('Fecha', ascending=False): equal dates in any order
PartidosUnicos(df_p) ==
    {u \in Enumeraciones({[Partido |-> r.Partido, Fecha |-> r.Fecha, Jornada |-> r.Jornada] :
                             r \in df_p}) :
        \A i, j \in 1..Len(u) : i < j => DateLE(u[j].Fecha, u[i].Fecha)}

\* the rival of the list: the text after "contra", whatever it is
RivalDeLista(partido_text) ==
    IF Contains(partido_text, TxtContra)
    THEN Strip(SplitLast(partido_text, TxtContra))
    ELSE TxtRivalDesconocido

\* one element of lista_partidos; the date is kept as a date
ElementoLista(row) ==
    LET jornada == Upper(Strip(row.Jornada))
    IN  [partido |-> row.Partido, fecha |-> row.Fecha, jornada |-> jornada,
         label |-> jornada \o <<" ", "-", " ">> \o RivalDeLista(row.Partido)]

\* the success answer of the list: 'status' and 'data', no 'message'
RespuestaLista(u) ==
    [status |-> "success",
     data |-> [partidos |-> [i \in 1..Len(u) |-> ElementoLista(u[i])],
               partido_reciente |-> IF u # <<>> THEN u[1].Partido ELSE NoText]]

ListaPartidosResultados(sql_ok, loader_ok) ==
    LET datos == DatosPartidos(sql_ok, loader_ok)
    IN  IF ~datos.ok THEN {Fallo("Error cargando desde base de datos", <<>>, LocalsVacio)}
        ELSE {Salida(RespuestaLista(u), {}, <<>>, <<>>, LocalsFilas(datos.df)) :
                 u \in PartidosUnicos(datos.df)}

\* GET /api/fisicos/partidos
ObtenerListaPartidos(sql_ok, loader_ok) ==
    \E s \in ListaPartidosResultados(sql_ok, loader_ok) :
        /\ op' = "obtener_lista_partidos"
        /\ args' = [sql_ok |-> sql_ok, loader_ok |-> loader_ok]
        /\ resp' = s.resp
        /\ df_jugadores' = s.df_jugadores
        /\ datos_microciclo' = s.datos_microciclo
        /\ queries' = s.queries
        /\ locals' = s.locals
        /\ UNCHANGED <<partidos, entrenos, resultados, servidor>>

-----------------------------------------------------------------------------
(* generar_barras_individuales *)

MinutosMinimos == 90
TopJugadores == 15

\* df[df['Minutos_jugados'] >= 90]
ConMinutosMinimos(minutos) == minutos >= MinutosMinimos

\* groupby('Jugador'): the distances averaged, the minutes summed
PromediosPorJugador(df) ==
    {LET rs == {r \in df : r.Jugador = j}
     IN  [Jugador |-> j,
          Minutos_jugados |-> SumSkipNaN(rs, "Minutos_jugados"),
          Distancia_total |-> PromedioDistancia(rs, "Distancia_total"),
          Distancia_HSR |-> PromedioDistancia(rs, "Distancia_HSR"),
          Distancia_Sprint |-> PromedioDistancia(rs, "Distancia_Sprint")] :
        j \in {r.Jugador : r \in df}}

\* p >= q for two finite or missing means; a missing mean sorts last
RatGE(p, q) == RatIsNaN(q) \/ (~RatIsNaN(p) /\ p[1] * q[2] >= q[1] * p[2])

\* sort_values('Distancia_total', ascending=False).head(15): the sets of
\* rows that can come first
Primeros(A, n) ==
    IF Cardinality(A) <= n THEN {A}
    ELSE {T \in SUBSET A :
             /\ Cardinality(T) = n
             /\ \A a \in T, b \in A \ T : RatGE(a.Distancia_total, b.Distancia_total)}

\* the figure, given by the players it plots
Figura(jugadores) == [image |-> jugadores, format |-> "png"]

BarrasIndividualesResultados(loader_ok) ==
    IF ~loader_ok THEN {Fallo("Error cargando desde base de datos", <<>>, LocalsVacio)}
    ELSE
    LET df == CargarPartidos(partidos)
        df_individual ==
            {a \in PromediosPorJugador(df) : ConMinutosMinimos(a.Minutos_jugados)}
    IN  {Salida(SuccessEnvelope(Figura({a.Jugador : a \in top}),
                                "Grafica generada correctamente"),
                top, <<>>, <<>>, LocalsFilas(df)) :
            top \in Primeros(df_individual, TopJugadores)}

\* GET /api/fisicos/barras-individuales
GenerarBarrasIndividuales(loader_ok) ==
    \E s \in BarrasIndividualesResultados(loader_ok) :
        /\ op' = "generar_barras_individuales"
        /\ args' = [loader_ok |-> loader_ok]
        /\ resp' = s.resp
        /\ df_jugadores' = s.df_jugadores
        /\ datos_microciclo' = s.datos_microciclo
        /\ queries' = s.queries
        /\ locals' = s.locals
        /\ UNCHANGED <<partidos, entrenos, resultados, servidor>>

-----------------------------------------------------------------------------
(* generar_evolutivo and get_resumen_fisico *)

\* the loader leaves Jornada numeric, so .str.extract raises on any loaded
\* row; on an empty table the column type, and with it the outcome, depends
\* on the pandas build
EvolutivoResultados(loader_ok) ==
    IF ~loader_ok THEN {Fallo("Error cargando desde base de datos", <<>>, LocalsVacio)}
    ELSE {Fallo("Can only use .str accessor with string values", <<>>, LocalsVacio)}
         \cup (IF partidos = {}
               THEN {Salida(SuccessEnvelope(Figura({}), "Grafica generada correctamente"),
                            {}, <<>>, <<>>, LocalsVacio)}
               ELSE {})

\* GET /api/fisicos/evolutivo
GenerarEvolutivo(loader_ok) ==
    \E s \in EvolutivoResultados(loader_ok) :
        /\ op' = "generar_evolutivo"
        /\ args' = [loader_ok |-> loader_ok]
        /\ resp' = s.resp
        /\ df_jugadores' = s.df_jugadores
        /\ datos_microciclo' = s.datos_microciclo
        /\ queries' = s.queries
        /\ locals' = s.locals
        /\ UNCHANGED <<partidos, entrenos, resultados, servidor>>

\* the summary dictionary, returned as it is
Resumen ==
    [total_partidos |-> 0, promedio_distancia |-> 0, promedio_velocidad |-> 0,
     mejor_partido |-> <<>>, ultima_actualizacion |-> <<>>]

\* the empty dictionary of the except clause
DiccionarioVacio == [x \in {} |-> 0]

\* get_resumen_fisico
GetResumenFisico(loader_ok) ==
    /\ op' = "get_resumen_fisico"
    /\ args' = [loader_ok |-> loader_ok]
    /\ resp' = IF loader_ok THEN Resumen ELSE DiccionarioVacio
    /\ df_jugadores' = {}
    /\ datos_microciclo' = <<>>
    /\ queries' = <<>>
    /\ locals' = LocalsVacio
    /\ UNCHANGED <<partidos, entrenos, resultados, servidor>>

-----------------------------------------------------------------------------
(* obtener_lista_microciclos *)

TxtSinRival == <<"S","i","n"," ","r","i","v","a","l">>

\* the number the loader makes of a round id
JornadaNumero(jornada) == DigitsVal(ExtractDigits(jornada))

\* the loaded rows of round n of a table
FilasJornada(tabla, n) ==
    {r \in tabla : ExtractDigits(r.Jornada) # <<>> /\ JornadaNumero(r.Jornada) = n}

FechaMaxima(df) == CHOOSE f \in {r.Fecha : r \in df} : \A r \in df : DateLE(r.Fecha, f)

\* the rival of a microcycle of the list
RivalMicrociclo(partido_text) ==
    IF Contains(partido_text, TxtContra)
    THEN Strip(SplitLast(partido_text, TxtContra))
    ELSE TxtSinRival

\* one microcycle; `primera` is the match row listed first when there is one
Microciclo(n, hay_partido, primera) ==
    LET rival == IF hay_partido THEN RivalMicrociclo(Strip(primera.Partido)) ELSE TxtSinRival
    IN  [jornada |-> n, jornada_num |-> n, rival |-> rival,
         fecha_inicio |-> Strftime(FechaMinima(FilasJornada(entrenos, n))),
         fecha_fin |-> Strftime(FechaMaxima(FilasJornada(entrenos, n))),
         fecha_partido |-> IF hay_partido THEN primera.Fecha ELSE NoDate,
         label |-> TxtJ \o IntStr(n) \o <<" ", "-", " ">> \o rival]

\* the microcycles one round can give
MicrociclosDe(n) ==
    IF FilasJornada(partidos, n) = {}
    THEN {Microciclo(n, FALSE, [Partido |-> NoText, Fecha |-> NoDate])}
    ELSE {Microciclo(n, TRUE, primera) : primera \in FilasJornada(partidos, n)}

\* sorted by match date, the ones without a match last
EnOrdenDePartido(u) ==
    \A i, j \in 1..Len(u) :
        i < j =>
            \/ u[j].fecha_partido = NoDate
            \/ u[i].fecha_partido # NoDate /\ DateLE(u[i].fecha_partido, u[j].fecha_partido)

SinFechaPartido(m) ==
    [jornada |-> m.jornada, jornada_num |-> m.jornada_num, rival |-> m.rival,
     fecha_inicio |-> m.fecha_inicio, fecha_fin |-> m.fecha_fin, label |-> m.label]

ListaMicrociclos ==
    LET rondas == {JornadaNumero(r.Jornada) :
                      r \in {x \in entrenos : ExtractDigits(x.Jornada) # <<>>}}
        elecciones == {f \in [rondas -> UNION {MicrociclosDe(n) : n \in rondas}] :
                          \A n \in rondas : f[n] \in MicrociclosDe(n)}
    IN  UNION {{[i \in 1..Len(u) |-> SinFechaPartido(u[i])] :
                   u \in {v \in Enumeraciones({f[n] : n \in rondas}) : EnOrdenDePartido(v)}} :
                  f \in elecciones}

ListaMicrociclosResultados(loader_ok) ==
    IF ~loader_ok THEN
        {Fallo("Error al obtener lista de microciclos", <<>>, LocalsVacio)}
    ELSE {Salida(SuccessEnvelope([microciclos |-> u],
                                 "Lista de microciclos obtenida correctamente"),
                 {}, <<>>, <<>>, LocalsVacio) :
             u \in ListaMicrociclos}

\* GET /api/microciclos/lista
ObtenerListaMicrociclos(loader_ok) ==
    \E s \in ListaMicrociclosResultados(loader_ok) :
        /\ op' = "obtener_lista_microciclos"
        /\ args' = [loader_ok |-> loader_ok]
        /\ resp' = s.resp
        /\ df_jugadores' = s.df_jugadores
        /\ datos_microciclo' = s.datos_microciclo
        /\ queries' = s.queries
        /\ locals' = s.locals
        /\ UNCHANGED <<partidos, entrenos, resultados, servidor>>

-----------------------------------------------------------------------------
(* Table contents the requests run on *)

MaxPartidoRows == 3
MaxEntrenoRows == 3
MaxGrupoRows == 6
MaxBarrasRows == 4

F(y, m, d) == <<y, m, d>>

PRow(jornada, partido, tarea, fecha, jugador, minutos, dt, dh, ds) ==
    [Jornada |-> jornada, Partido |-> partido, Tarea |-> tarea, Fecha |-> fecha,
     Jugador |-> jugador, Minutos_jugados |-> minutos,
     Distancia_total |-> dt, Distancia_HSR |-> dh, Distancia_Sprint |-> ds]

ERow(jornada, situacion, fecha, jugador, minutos, dt, dh, ds) ==
    [Jornada |-> jornada, Situacion |-> situacion, Tarea |-> "Total", Fecha |-> fecha,
     Jugador |-> jugador, Minutos_jugados |-> minutos,
     Distancia_total |-> dt, Distancia_HSR |-> dh, Distancia_Sprint |-> ds]

RRow(jornada, codigo, resultado) ==
    [Jornada |-> jornada, Codigo |-> codigo, Resultado |-> resultado]

ContraU == <<"P"," ","c","o","n","t","r","a"," ","U">>
ContraV == <<"P"," ","c","o","n","t","r","a"," ","V">>
ContraW == <<"P"," ","c","o","n","t","r","a"," ","W">>
ContraX == <<"P"," ","c","o","n","t","r","a"," ","R","i","v","a","l"," ","X">>
ContraY == <<"P"," ","c","o","n","t","r","a"," ","Y">>
ContraZ == <<"P"," ","c","o","n","t","r","a"," ","Z">>
SinMarca == <<"A","m","i","s","t","o","s","o">>
MD1 == <<"M","D","-","1">>
MD2 == <<"M","D","-","2">>
MD4 == <<"M","D","-","4">>

\* match rows of rounds 2 to 6, 8 and 9
PartidoRows ==
    {PRow(<<"J","2">>, ContraW, "1a parte", F(2024, 9, 1), "A", 45, 2500, 300, 100),
     PRow(<<"J","2">>, ContraW, "2a parte", F(2024, 9, 1), "A", 45, 2400, 280, 90),
     PRow(<<"J","3">>, ContraX, "1a parte", F(2024, 9, 8), "A", 90, 9000, 700, 0),
     PRow(<<"J","4">>, ContraU, "1a parte", F(2024, 9, 5), "B", 80, 8200, 500, 60),
     PRow(<<"J","5">>, ContraV, "2a parte", F(2024, 9, 15), "A", 75, 7500, 450, 45),
     PRow(<<"J","6">>, SinMarca, "1a parte", F(2024, 9, 29), "B", 71, 7100, 355, 71),
     PRow(<<"J","8">>, ContraY, "2a parte", F(2024, 10, 27), "A", 80, 8000, 600, 200),
     PRow(<<"J","9">>, ContraZ, "1a parte", F(2024, 10, 20), "B", 94, 9400, 940, 94)}

\* a few training rows of rounds 3, 4 and 9
EntrenoRowsBase ==
    {ERow(<<"J","3">>, MD4, F(2024, 9, 4), "A", 90, 6000, 400, 50),
     ERow(<<"J","3">>, MD1, F(2024, 8, 30), "A", 60, 3000, 200, 20),
     ERow(<<"J","4">>, MD4, F(2024, 9, 11), "A", 90, 6100, 410, 51),
     ERow(<<"J","9">>, MD4, F(2024, 10, 10), "A", 90, 6200, 420, 52),
     ERow(<<"J","9">>, MD1, F(2024, 10, 13), "B", 60, 3100, 210, 21)}

\* the training week of round 3 in detail: one large group, a tie for the
\* mode, rows at and just under 70 % of it, a group without minutes
EntrenoRows ==
    {ERow(<<"J","3">>, MD4, F(2024, 9, 4), "A", 90, 6000, 400, 50),
     ERow(<<"J","3">>, MD4, F(2024, 9, 4), "B", 90, 5000, NaN, 30),
     ERow(<<"J","3">>, MD4, F(2024, 9, 4), "C", 90, 5500, 300, 40),
     ERow(<<"J","3">>, MD4, F(2024, 9, 4), "D", 45, 2000, 100, 10),
     ERow(<<"J","3">>, MD4, F(2024, 9, 4), "E", 20, 1000, 50, 5),
     ERow(<<"J","3">>, MD4, F(2024, 9, 4), "F", 63, 4000, 250, 25),
     ERow(<<"J","3">>, MD4, F(2024, 9, 4), "G", 62, 3900, 240, 24),
     ERow(<<"J","3">>, MD2, F(2024, 9, 6), "A", NaN, 1000, 50, 5),
     ERow(<<"J","3">>, MD1, F(2024, 8, 30), "A", 60, 3000, 200, 20),
     ERow(<<"J","3">>, MD1, F(2024, 8, 30), "B", 30, NaN, 150, 15)}

\* the matches the training detail is checked with
PartidoRowsEntrenos ==
    {PRow(<<"J","2">>, ContraW, "1a parte", F(2024, 9, 1), "A", 45, 2500, 300, 100),
     PRow(<<"J","2">>, ContraW, "2a parte", F(2024, 9, 1), "A", 45, 2400, 280, 90),
     PRow(<<"J","3">>, ContraX, "1a parte", F(2024, 9, 8), "A", 90, 9000, 700, 0)}

\* match rows for the match views: both halves of round 9, a player at
\* exactly 70, one without minutes, and rounds 7, 8 and 10
BarrasRows ==
    {PRow(<<"J","9">>, ContraZ, "1a parte", F(2024, 10, 20), "A", 45, 2500, 300, 100),
     PRow(<<"J","9">>, ContraZ, "2a parte", F(2024, 10, 20), "A", 45, 2400, 280, 90),
     PRow(<<"J","9">>, ContraZ, "1a parte", F(2024, 10, 20), "B", 35, 2000, 200, 50),
     PRow(<<"J","9">>, ContraZ, "2a parte", F(2024, 10, 20), "B", 35, 1900, 190, NaN),
     PRow(<<"J","9">>, ContraZ, "1a parte", F(2024, 10, 20), "C", NaN, 0, 0, 0),
     PRow(<<"J","7">>, ContraW, "1a parte", F(2024, 10, 6), "A", 80, 8000, 600, 200),
     PRow(<<" ","j","8">>, ContraY, "2 a parte", F(2024, 10, 27), "B", 71, 7100, 355, 71),
     PRow(<<"J","8">>, ContraY, "2a parte", F(2024, 10, 27), "A", 94, 9400, 940, 94),
     PRow(<<"J","1","0">>, ContraX, "1a parte", F(2024, 11, 3), "A", 75, 7500, 450, 45)}

ResultadoRows ==
    {RRow(<<"J","9">>, 12, <<"v"," ">>),
     RRow(<<"8">>, NaN, <<"D">>)}

\* match rows with the defects a table can hold: a round id without a
\* number, players that are missing, empty or blank, a distance that did
\* not parse; player A sums exactly 90 minutes over the season
FilasRows ==
    {PRow(<<"J","9">>, ContraZ, "1a parte", F(2024, 10, 20), "A", 45, 2500, 300, 100),
     PRow(<<"J","9">>, ContraZ, "2a parte", F(2024, 10, 20), "A", 45, 2400, 280, 90),
     PRow(<<"J","8">>, ContraY, "2a parte", F(2024, 10, 27), "B", 80, NaN, 600, 200),
     PRow(<<"J","X">>, ContraW, "1a parte", F(2024, 10, 6), "C", 95, 9500, 950, 95),
     PRow(<<"J","7">>, ContraW, "1a parte", F(2024, 10, 6), "", 80, 8000, 800, 80),
     PRow(<<"J","7">>, ContraW, "1a parte", F(2024, 10, 6), " ", 75, 7500, 750, 75),
     PRow(<<"J","7">>, ContraW, "2a parte", F(2024, 10, 6), "NULL", 85, 8500, 850, 85),
     PRow(<<"J","7">>, ContraW, "2a parte", F(2024, 10, 6), "D", 91, 9100, 910, 91)}

\* outcome rows: spellings of V, a draw, a code outside the table
ResultadoRowsFilas ==
    {RRow(<<"J","9">>, 12, <<"v"," ">>),
     RRow(<<"J","8">>, NaN, <<" ","V"," ">>),
     RRow(<<"7">>, 3, <<"x">>)}

\* the training rows the microcycle list is asked with
EntrenosLista ==
    {ERow(<<"J","3">>, MD4, F(2024, 9, 4), "A", 90, 6000, 400, 50),
     ERow(<<"J","9">>, MD1, F(2024, 10, 13), "B", 60, 3100, 210, 21)}

\* rounds whose numbers share digits: 1 and 11, 2 and 12, 3 and 13
RondasPartidoRows ==
    {PRow(<<"J","1">>, ContraW, "1a parte", F(2024, 8, 25), "A", 90, 9100, 710, 10),
     PRow(<<"J","2">>, ContraU, "1a parte", F(2024, 9, 1), "A", 90, 9200, 720, 20),
     PRow(<<"J","3">>, ContraX, "1a parte", F(2024, 9, 8), "A", 90, 9000, 700, 0),
     PRow(<<"J","1","2">>, ContraV, "2a parte", F(2024, 11, 17), "B", 80, 8000, 600, 60),
     PRow(<<"J","8">>, ContraY, "2a parte", F(2024, 10, 27), "A", 80, 8000, 600, 200),
     PRow(<<"J","9">>, ContraZ, "1a parte", F(2024, 10, 20), "B", 94, 9400, 940, 94)}

RondasEntrenoRows ==
    {ERow(<<"J","1">>, MD1, F(2024, 8, 24), "A", 60, 3000, 200, 20),
     ERow(<<"J","1","1">>, MD2, F(2024, 11, 8), "A", 70, 4000, 300, 30),
     ERow(<<"J","3">>, MD4, F(2024, 9, 4), "A", 90, 6000, 400, 50),
     ERow(<<"J","1","3">>, MD4, F(2024, 11, 20), "B", 90, 6300, 430, 53)}

Hasta(S, n) == {T \in SUBSET S : Cardinality(T) <= n}

JornadasPedidas ==
    {<<>>, <<"J">>, <<"a","b","c">>,
     <<"J","3">>, <<"3">>, <<"S","e","m","a","n","a","_","J","3">>,
     <<" ","J","3"," ">>, <<"j","3">>,
     <<"J","4">>, <<"J","5">>, <<"J","6">>, <<"J","8">>, <<"J","9">>,
     <<"S","e","m","a","n","a","_","9">>}

TiposPedidos == TiposDistancia \cup {"Distancia", "Minutos_jugados"}

\* FisicosModule.__init__: the four fields of the instance every route uses
FisicosModuleInit ==
    [config |-> "Config",
     colors |-> "get_color_scheme()",
     archivo_partidos |-> "Partidos_Completo.xlsx",
     archivo_entrenos |-> "Entrenos_Completo.xlsx"]

\* the worker threads of the development server (app.run is threaded)
Hilos == {"h1", "h2"}

\* a figure nothing is drawn on and no layout was computed for
FiguraNueva == [contenido |-> <<>>, ajuste |-> <<>>]

HiloLibre ==
    [pc |-> "libre", loader_ok |-> TRUE, top |-> {}, fig |-> FiguraNueva,
     resp |-> NoResp]

\* the callers of the scheduler object that can overlap
Llamadas == {"a", "b"}

LlamadaLibre == [pc |-> "libre", ret |-> NoResp]

\* DataUpdateScheduler.__init__: a BackgroundScheduler not yet started and
\* without jobs, is_running False
SchedulerInit == [state |-> "stopped", jobs |-> {}]

\* the server process right after the modules are imported, under a
\* configuration with the given AUTO_UPDATE_ENABLED
ArranqueCon(enabled) ==
    /\ modulo = FisicosModuleInit
    /\ pyplot = <<>>
    /\ hilos = [h \in Hilos |-> HiloLibre]
    /\ is_running = FALSE
    /\ scheduler = SchedulerInit
    /\ llamadas = [c \in Llamadas |-> LlamadaLibre]
    /\ auto_update_enabled = enabled

\* Config.AUTO_UPDATE_ENABLED as shipped
Arranque == ArranqueCon(TRUE)

EnReposo(o, a, r, dj, dm, q, l) ==
    /\ o = "ninguna"
    /\ a = [jornada |-> NoText, tipo_distancia |-> ""]
    /\ r = NoResp
    /\ dj = {}
    /\ dm = <<>>
    /\ q = <<>>
    /\ l = LocalsVacio

Reposo ==
    /\ EnReposo(op, args, resp, df_jugadores, datos_microciclo, queries, locals)
    /\ Arranque

\* the route hands the envelope to the client (jsonify) and the request's
\* locals are gone; the next request starts from the tables alone
Responder ==
    /\ op # "ninguna"
    /\ EnReposo(op', args', resp', df_jugadores', datos_microciclo', queries', locals')
    /\ UNCHANGED <<partidos, entrenos, resultados, servidor>>

-----------------------------------------------------------------------------
(* The composer on any request *)

PedirMicrociclo ==
    /\ op = "ninguna"
    /\ \E jornada \in JornadasPedidas, tipo_distancia \in TiposPedidos, conecta \in BOOLEAN :
          ObtenerDatosMicrocicloEquipo(jornada, tipo_distancia, conecta)

Init ==
    /\ partidos \in Hasta(PartidoRows, MaxPartidoRows)
    /\ entrenos \in Hasta(EntrenoRowsBase, MaxEntrenoRows)
    /\ resultados = {}
    /\ Reposo

Next == PedirMicrociclo \/ Responder

Spec == Init /\ [][Next]_vars

-----------------------------------------------------------------------------
(* The composer on the training week of round 3 *)

PedirMicrocicloEntrenos ==
    /\ op = "ninguna"
    /\ \E tipo_distancia \in TiposDistancia :
          ObtenerDatosMicrocicloEquipo(<<"J","3">>, tipo_distancia, TRUE)

InitEntrenos ==
    /\ partidos \in Hasta(PartidoRowsEntrenos, MaxPartidoRows) \ {{}}
    /\ entrenos \in Hasta(EntrenoRows, MaxGrupoRows)
    /\ resultados = {}
    /\ Reposo

NextEntrenos == PedirMicrocicloEntrenos \/ Responder

SpecEntrenos == InitEntrenos /\ [][NextEntrenos]_vars

-----------------------------------------------------------------------------
(* The match views, and the composer's reference match, on the same rows *)

PedirBarras ==
    /\ op = "ninguna"
    /\ \E sql_ok \in BOOLEAN, loader_ok \in BOOLEAN, resultados_ok \in BOOLEAN :
          GenerarBarrasColectivas(sql_ok, loader_ok, resultados_ok)

PedirScatter ==
    /\ op = "ninguna"
    /\ \E partido \in {NoText, ContraZ, ContraY}, sql_ok \in BOOLEAN, loader_ok \in BOOLEAN :
          GenerarScatterIndividual(partido, sql_ok, loader_ok)

PedirMicrocicloPrevio ==
    /\ op = "ninguna"
    /\ \E jornada \in {<<"J","8">>, <<"1","0">>}, tipo_distancia \in TiposDistancia :
          ObtenerDatosMicrocicloEquipo(jornada, tipo_distancia, TRUE)

InitBarras ==
    /\ partidos \in Hasta(BarrasRows, MaxBarrasRows)
    /\ entrenos = {}
    /\ resultados \in SUBSET ResultadoRows
    /\ Reposo

NextBarras == PedirBarras \/ PedirScatter \/ PedirMicrocicloPrevio \/ Responder

SpecBarras == InitBarras /\ [][NextBarras]_vars

-----------------------------------------------------------------------------
(* The collective bars on a results table with two rows for round 8 *)

ResultadoRowsRepetidos == ResultadoRows \cup {RRow(<<"J","8">>, 5, <<"E">>)}

PedirBarrasAnotadas ==
    /\ op = "ninguna"
    /\ \E sql_ok \in BOOLEAN, loader_ok \in BOOLEAN, resultados_ok \in BOOLEAN :
          GenerarBarrasColectivas(sql_ok, loader_ok, resultados_ok)

InitAnotacion ==
    /\ partidos \in Hasta(BarrasRows, MaxBarrasRows)
    /\ entrenos = {}
    /\ resultados \in SUBSET ResultadoRowsRepetidos
    /\ Reposo

NextAnotacion == PedirBarrasAnotadas \/ Responder

SpecAnotacion == InitAnotacion /\ [][NextAnotacion]_vars

-----------------------------------------------------------------------------
(* The list of matches and the composer on match descriptions of every shape *)

ContraNada == <<"P"," ","c","o","n","t","r","a"," ">>
ContraEspacios == <<"P"," ","c","o","n","t","r","a"," "," ","T"," ">>

RivalRows ==
    {PRow(<<"J","2">>, ContraEspacios, "1a parte", F(2024, 9, 1), "A", 90, 9200, 720, 20),
     PRow(<<"J","3">>, ContraNada, "1a parte", F(2024, 9, 8), "A", 90, 9000, 700, 0),
     PRow(<<"J","4">>, SinMarca, "1a parte", F(2024, 9, 15), "B", 80, 8200, 500, 60),
     PRow(<<"J","5">>, NoText, "2a parte", F(2024, 9, 22), "A", 75, 7500, 450, 45),
     PRow(<<"J","6">>, ContraX, "2a parte", F(2024, 9, 29), "B", 71, 7100, 355, 71)}

PedirListaPartidosRival ==
    /\ op = "ninguna"
    /\ \E sql_ok \in BOOLEAN, loader_ok \in BOOLEAN : ObtenerListaPartidos(sql_ok, loader_ok)

PedirMicrocicloRival ==
    /\ op = "ninguna"
    /\ \E jornada \in {<<"J","3">>, <<"J","4">>, <<"J","5">>, <<"J","6">>, <<"J","7">>} :
          ObtenerDatosMicrocicloEquipo(jornada, "Distancia_total", TRUE)

InitRival ==
    /\ partidos \in Hasta(RivalRows, MaxPartidoRows)
    /\ entrenos \in {{}, EntrenosLista}
    /\ resultados = {}
    /\ Reposo

NextRival == PedirListaPartidosRival \/ PedirMicrocicloRival \/ Responder

SpecRival == InitRival /\ [][NextRival]_vars

-----------------------------------------------------------------------------
(* The individual bars drawn by two threads of the server at once *)

\* Gcf.destroy (plt.close): the figure leaves the registry
CerrarFigura(registro, h) == SelectSeq(registro, LAMBDA x : x # h)

\* fig.savefig: the image is given by what is drawn and by the layout that
\* was computed for it; with the layout of the finished drawing it is the
\* figure of a request that ran alone, with any other layout (none, or one
\* computed for the empty axes) the same players in another picture
Savefig(fig) ==
    IF fig.ajuste = <<fig.contenido>>
    THEN Figura(fig.contenido[1])
    ELSE [image |-> fig.contenido[1], format |-> "png", ajuste |-> fig.ajuste]

\* load_excel_data to head(15): the rows are read and the players chosen;
\* a failing load is answered from the except branch
HiloCargar(h) ==
    /\ hilos[h].pc = "libre"
    /\ \E loader_ok \in BOOLEAN :
        \E s \in BarrasIndividualesResultados(loader_ok) :
            hilos' = [hilos EXCEPT ![h] =
                        IF s.resp.status = "success"
                        THEN [HiloLibre EXCEPT !.pc = "cargado",
                                               !.loader_ok = loader_ok,
                                               !.top = s.resp.data.image]
                        ELSE [HiloLibre EXCEPT !.pc = "hecho",
                                               !.loader_ok = loader_ok,
                                               !.resp = s.resp]]
    /\ UNCHANGED <<peticion, modulo, pyplot, is_running, scheduler, llamadas,
                   auto_update_enabled>>

\* plt.subplots: a new figure is registered and becomes the current one
HiloCrearFigura(h) ==
    /\ hilos[h].pc = "cargado"
    /\ pyplot' = Append(pyplot, h)
    /\ hilos' = [hilos EXCEPT ![h].pc = "creada", ![h].fig = FiguraNueva]
    /\ UNCHANGED <<peticion, modulo, is_running, scheduler, llamadas,
                   auto_update_enabled>>

\* the three barh panels are drawn on the thread's own axes
HiloDibujar(h) ==
    /\ hilos[h].pc = "creada"
    /\ hilos' = [hilos EXCEPT ![h].pc = "dibujada",
                              ![h].fig.contenido = <<hilos[h].top>>]
    /\ UNCHANGED <<peticion, modulo, pyplot, is_running, scheduler, llamadas,
                   auto_update_enabled>>

\* plt.tight_layout(): the layout of the CURRENT figure of the registry is
\* computed from what is drawn on it at this moment
HiloAjustar(h) ==
    /\ hilos[h].pc = "dibujada"
    /\ LET g == pyplot[Len(pyplot)]
       IN  hilos' = [hilos EXCEPT ![g].fig.ajuste = <<hilos[g].fig.contenido>>,
                                  ![h].pc = "ajustada"]
    /\ UNCHANGED <<peticion, modulo, pyplot, is_running, scheduler, llamadas,
                   auto_update_enabled>>

\* fig_to_json(fig): the thread's figure is saved and closed, and the
\* success envelope is built around the image
HiloConvertir(h) ==
    /\ hilos[h].pc = "ajustada"
    /\ hilos' = [hilos EXCEPT ![h].pc = "hecho",
                              ![h].resp = SuccessEnvelope(Savefig(hilos[h].fig),
                                              "Grafica generada correctamente")]
    /\ pyplot' = CerrarFigura(pyplot, h)
    /\ UNCHANGED <<peticion, modulo, is_running, scheduler, llamadas,
                   auto_update_enabled>>

\* the route hands the envelope to the client and the thread is free again
HiloResponder(h) ==
    /\ hilos[h].pc = "hecho"
    /\ hilos' = [hilos EXCEPT ![h] = HiloLibre]
    /\ UNCHANGED <<peticion, modulo, pyplot, is_running, scheduler, llamadas,
                   auto_update_enabled>>

InitHilos ==
    /\ partidos \in Hasta(FilasRows, MaxPartidoRows)
    /\ entrenos = {}
    /\ resultados = {}
    /\ Reposo

NextHilos ==
    \E h \in Hilos :
        \/ HiloCargar(h)
        \/ HiloCrearFigura(h)
        \/ HiloDibujar(h)
        \/ HiloAjustar(h)
        \/ HiloConvertir(h)
        \/ HiloResponder(h)

SpecHilos == InitHilos /\ [][NextHilos]_vars

-----------------------------------------------------------------------------
(* DataUpdateScheduler: start, stop and get_status called by two callers *)

\* the ids of the three jobs start() registers
JobsProgramados == {"actualizar_datos", "limpiar_cache", "verificar_salud"}

UPDATE_INTERVAL_MINUTES == 30

\* a call that has run to its return, with the line it logged
Devuelta(log) == [pc |-> "devuelto", ret |-> [log |-> log]]

\* start(): the two guards; a call that passes them enters the try block
StartComprobar(c) ==
    /\ llamadas[c].pc = "libre"
    /\ llamadas' = [llamadas EXCEPT ![c] =
          IF is_running THEN Devuelta("El programador ya esta en ejecucion")
          ELSE IF ~auto_update_enabled
               THEN Devuelta("Actualizacion automatica deshabilitada en configuracion")
          ELSE [LlamadaLibre EXCEPT !.pc = "start_try"]]
    /\ UNCHANGED <<peticion, modulo, pyplot, hilos, is_running, scheduler,
                   auto_update_enabled>>

\* the three add_job(..., replace_existing=True): one job per id
StartAnadir(c) ==
    /\ llamadas[c].pc = "start_try"
    /\ scheduler' = [scheduler EXCEPT !.jobs = @ \cup JobsProgramados]
    /\ llamadas' = [llamadas EXCEPT ![c].pc = "start_anadidos"]
    /\ UNCHANGED <<peticion, modulo, pyplot, hilos, is_running,
                   auto_update_enabled>>

\* self.scheduler.start(): SchedulerAlreadyRunningError on a running
\* scheduler; on a stopped one it starts, or fails and stays stopped; every
\* exception ends in the except branch, which only logs
StartIniciar(c) ==
    /\ llamadas[c].pc = "start_anadidos"
    /\ \E arranca \in BOOLEAN :
          IF scheduler.state = "stopped" /\ arranca
          THEN /\ scheduler' = [scheduler EXCEPT !.state = "running"]
               /\ llamadas' = [llamadas EXCEPT ![c].pc = "start_iniciado"]
          ELSE /\ scheduler' = scheduler
               /\ llamadas' = [llamadas EXCEPT ![c] =
                                  Devuelta("Error al iniciar programador")]
    /\ UNCHANGED <<peticion, modulo, pyplot, hilos, is_running,
                   auto_update_enabled>>

\* self.is_running = True
StartMarcar(c) ==
    /\ llamadas[c].pc = "start_iniciado"
    /\ is_running' = TRUE
    /\ llamadas' = [llamadas EXCEPT ![c] = Devuelta("Programador iniciado")]
    /\ UNCHANGED <<peticion, modulo, pyplot, hilos, scheduler,
                   auto_update_enabled>>

\* stop(): the guard; a call on a stopped programmer returns without a word
StopComprobar(c) ==
    /\ llamadas[c].pc = "libre"
    /\ llamadas' = [llamadas EXCEPT ![c] =
          IF ~is_running THEN Devuelta("")
          ELSE [LlamadaLibre EXCEPT !.pc = "stop_try"]]
    /\ UNCHANGED <<peticion, modulo, pyplot, hilos, is_running, scheduler,
                   auto_update_enabled>>

\* self.scheduler.shutdown(): SchedulerNotRunningError on a stopped
\* scheduler, caught and logged; on a running one it stops, and the job
\* store either keeps or drops its jobs
StopApagar(c) ==
    /\ llamadas[c].pc = "stop_try"
    /\ IF scheduler.state = "running"
       THEN /\ \E jobs \in {scheduler.jobs, {}} :
                  scheduler' = [state |-> "stopped", jobs |-> jobs]
            /\ llamadas' = [llamadas EXCEPT ![c].pc = "stop_apagado"]
       ELSE /\ scheduler' = scheduler
            /\ llamadas' = [llamadas EXCEPT ![c] =
                               Devuelta("Error al detener programador")]
    /\ UNCHANGED <<peticion, modulo, pyplot, hilos, is_running,
                   auto_update_enabled>>

\* self.is_running = False
StopMarcar(c) ==
    /\ llamadas[c].pc = "stop_apagado"
    /\ is_running' = FALSE
    /\ llamadas' = [llamadas EXCEPT ![c] = Devuelta("Programador detenido")]
    /\ UNCHANGED <<peticion, modulo, pyplot, hilos, scheduler,
                   auto_update_enabled>>

\* get_status(): the guard on is_running
GetStatusComprobar(c) ==
    /\ llamadas[c].pc = "libre"
    /\ llamadas' = [llamadas EXCEPT ![c] =
          IF ~is_running
          THEN [pc |-> "devuelto",
                ret |-> [running |-> FALSE, message |-> "Programador detenido"]]
          ELSE [LlamadaLibre EXCEPT !.pc = "status_jobs"]]
    /\ UNCHANGED <<peticion, modulo, pyplot, hilos, is_running, scheduler,
                   auto_update_enabled>>

\* get_status(): the jobs are listed and the running answer is built
GetStatusJobs(c) ==
    /\ llamadas[c].pc = "status_jobs"
    /\ llamadas' = [llamadas EXCEPT ![c] =
          [pc |-> "devuelto",
           ret |-> [running |-> TRUE, jobs |-> scheduler.jobs,
                    update_interval_minutes |-> UPDATE_INTERVAL_MINUTES]]]
    /\ UNCHANGED <<peticion, modulo, pyplot, hilos, is_running, scheduler,
                   auto_update_enabled>>

\* the caller takes the return value
Devolver(c) ==
    /\ llamadas[c].pc = "devuelto"
    /\ llamadas' = [llamadas EXCEPT ![c] = LlamadaLibre]
    /\ UNCHANGED <<peticion, modulo, pyplot, hilos, is_running, scheduler,
                   auto_update_enabled>>

InitProgramador ==
    /\ partidos = {}
    /\ entrenos = {}
    /\ resultados = {}
    /\ EnReposo(op, args, resp, df_jugadores, datos_microciclo, queries, locals)
    /\ \E enabled \in BOOLEAN : ArranqueCon(enabled)

NextProgramador ==
    \E c \in Llamadas :
        \/ StartComprobar(c)
        \/ StartAnadir(c)
        \/ StartIniciar(c)
        \/ StartMarcar(c)
        \/ StopComprobar(c)
        \/ StopApagar(c)
        \/ StopMarcar(c)
        \/ GetStatusComprobar(c)
        \/ GetStatusJobs(c)
        \/ Devolver(c)

SpecProgramador == InitProgramador /\ [][NextProgramador]_vars

-----------------------------------------------------------------------------
(* Every public operation, on tables with defective rows *)

PedirBarrasFilas ==
    /\ op = "ninguna"
    /\ \E sql_ok \in BOOLEAN, loader_ok \in BOOLEAN, resultados_ok \in BOOLEAN :
          GenerarBarrasColectivas(sql_ok, loader_ok, resultados_ok)

PedirScatterFilas ==
    /\ op = "ninguna"
    /\ \E partido \in {NoText, ContraW}, sql_ok \in BOOLEAN, loader_ok \in BOOLEAN :
          GenerarScatterIndividual(partido, sql_ok, loader_ok)

PedirListaPartidos ==
    /\ op = "ninguna"
    /\ \E sql_ok \in BOOLEAN, loader_ok \in BOOLEAN : ObtenerListaPartidos(sql_ok, loader_ok)

PedirBarrasIndividuales ==
    /\ op = "ninguna"
    /\ \E loader_ok \in BOOLEAN : GenerarBarrasIndividuales(loader_ok)

PedirEvolutivo ==
    /\ op = "ninguna"
    /\ \E loader_ok \in BOOLEAN : GenerarEvolutivo(loader_ok)

PedirResumen ==
    /\ op = "ninguna"
    /\ \E loader_ok \in BOOLEAN : GetResumenFisico(loader_ok)

PedirListaMicrociclos ==
    /\ op = "ninguna"
    /\ \E loader_ok \in BOOLEAN : ObtenerListaMicrociclos(loader_ok)

PedirMicrocicloFilas ==
    /\ op = "ninguna"
    /\ \E jornada \in {<<"J","8">>, <<"J","9">>}, conecta \in BOOLEAN :
          ObtenerDatosMicrocicloEquipo(jornada, "Distancia_total", conecta)

InitOperaciones ==
    /\ partidos \in Hasta(FilasRows, MaxPartidoRows)
    /\ entrenos \in {{}, EntrenosLista}
    /\ resultados \in SUBSET ResultadoRowsFilas
    /\ Reposo

NextOperaciones ==
    \/ PedirBarrasFilas
    \/ PedirScatterFilas
    \/ PedirListaPartidos
    \/ PedirBarrasIndividuales
    \/ PedirEvolutivo
    \/ PedirResumen
    \/ PedirListaMicrociclos
    \/ PedirMicrocicloFilas
    \/ Responder

SpecOperaciones == InitOperaciones /\ [][NextOperaciones]_vars

-----------------------------------------------------------------------------
(* The composer on rounds whose numbers share digits *)

PedirMicrocicloRondas ==
    /\ op = "ninguna"
    /\ \E jornada \in {<<"J","1">>, <<"1">>, <<"J","3">>, <<"J","8">>},
          tipo_distancia \in TiposDistancia :
          ObtenerDatosMicrocicloEquipo(jornada, tipo_distancia, TRUE)

InitRondas ==
    /\ partidos \in Hasta(RondasPartidoRows, MaxPartidoRows)
    /\ entrenos \in Hasta(RondasEntrenoRows, MaxEntrenoRows)
    /\ resultados = {}
    /\ Reposo

NextRondas == PedirMicrocicloRondas \/ Responder

SpecRondas == InitRondas /\ [][NextRondas]_vars

-----------------------------------------------------------------------------
(* Properties of the match views and of the reference match *)

\* the rows of the working frame that belong to the aggregate a: the key is
\* (Jornada, Partido, Jugador) in the collective bars, Jugador elsewhere
FilasDe(a) ==
    {r \in locals.rows :
        /\ r.Jugador = a.Jugador
        /\ op = "generar_barras_colectivas" => r.Jornada = a.Jornada /\ r.Partido = a.Partido}

MinutosSumados(rs) == SumSkipNaN(rs, "Minutos_jugados")

\* q is the finite quotient d / m * 94
EsEstandar(q, d, m) == m > 0 /\ q[2] > 0 /\ q[1] * m = 94 * d * q[2]

\* C1: in the collective bars and in the composer's reference-match step,
\* each standardized total / HSR / sprint distance of a player is that
\* player's summed distance divided by the summed minutes, times 94, and
\* no player with zero summed minutes is standardized.
C1_Estandarizacion ==
    op \in {"generar_barras_colectivas", "obtener_datos_microciclo_equipo"} =>
        \A a \in df_jugadores :
            LET rs == FilasDe(a)
                m == MinutosSumados(rs)
            IN  /\ m # 0
                /\ EsEstandar(a.Distancia_total_Std, SumSkipNaN(rs, "Distancia_total"), m)
                /\ EsEstandar(a.Distancia_HSR_Std, SumSkipNaN(rs, "Distancia_HSR"), m)
                /\ EsEstandar(a.Distancia_Sprint_Std, SumSkipNaN(rs, "Distancia_Sprint"), m)

\* the reference match of a composer request standardizes two halves of
\* one player: 4900 m in 90 minutes is 46060/9 per 94 minutes
C1_Witness ==
    /\ op = "obtener_datos_microciclo_equipo"
    /\ resp.status = "success"
    /\ \E a \in df_jugadores :
          /\ Cardinality(FilasDe(a)) = 2
          /\ a.Minutos_jugados = 90
          /\ a.Distancia_total = 4900
          /\ a.Distancia_total_Std = <<46060, 9>>
          /\ a.Distancia_Sprint_Std = <<1786, 9>>

\* C2: in the collective bars, the individual scatter and the composer's
\* reference-match step, a player contributes exactly when the sum of the
\* minutes over the player's rows is strictly greater than 70.
C2_Fijo70 ==
    (/\ op \in {"generar_barras_colectivas", "generar_scatter_individual",
                "obtener_datos_microciclo_equipo"}
     /\ resp.status = "success") =>
        /\ \A r \in locals.rows :
              LET m == MinutosSumados(FilasDe(r))
              IN  (m > 70) <=>
                      \E a \in df_jugadores :
                          /\ FilasDe(a) = FilasDe(r)
                          /\ a.Minutos_jugados = m
        /\ \A a \in df_jugadores : FilasDe(a) # {} /\ MinutosSumados(FilasDe(a)) > 70

\* two halves of 45 make a player of 90 who is in, two halves of 35 make
\* one of exactly 70 who is out
C2_Witness ==
    /\ op = "generar_barras_colectivas"
    /\ resp.status = "success"
    /\ \E a \in df_jugadores :
          /\ a.Minutos_jugados = 90
          /\ {r.Minutos_jugados : r \in FilasDe(a)} = {45}
          /\ Cardinality(FilasDe(a)) = 2
    /\ \E r \in locals.rows :
          /\ Cardinality(FilasDe(r)) = 2
          /\ MinutosSumados(FilasDe(r)) = 70
          /\ \A a \in df_jugadores : FilasDe(a) # FilasDe(r)

\* the integer of a round id shown by the bars
NumeroJornada(jornada) == DigitsVal(ExtractDigits(jornada))

\* C3: the rounds of the collective bars come in ascending order of their
\* integer, except that round 9 comes immediately before round 8 when both
\* are present; every round with an eligible player is shown.
C3_OrdenJornadas ==
    (op = "generar_barras_colectivas" /\ resp.status = "success") =>
        LET js == resp.data.jornadas
        IN  /\ \A i, j \in 1..Len(js) :
                  i < j =>
                      LET a == NumeroJornada(js[i])
                          b == NumeroJornada(js[j])
                      IN  \/ a <= b /\ ~(a = 8 /\ b = 9)
                          \/ a = 9 /\ b = 8
            /\ {js[i] : i \in 1..Len(js)} = {a.Jornada : a \in df_jugadores}

\* rounds 7, 9, 8 in that order, or 9, 8, 10
C3_Witness ==
    /\ op = "generar_barras_colectivas"
    /\ resp.status = "success"
    /\ LET n == [i \in 1..Len(resp.data.jornadas) |-> NumeroJornada(resp.data.jornadas[i])]
       IN  n \in {<<7, 9, 8>>, <<9, 8, 10>>}

-----------------------------------------------------------------------------
(* Properties of the microcycle composer *)

EsMicrociclo == op = "obtener_datos_microciclo_equipo"

\* the canonical id J<n> of the round a request names
JornadaCanonica(jornada) == TxtJ \o IntStr(NumeroJornada(jornada))

RondasSinPartidoPrevio == {<<"J","5">>, <<"J","6">>, <<"J","9">>}

\* C4: for the rounds whose override record has mostrar_partido_previo =
\* False (J5, J6, J9) the composer never returns an entry tagged 'partido',
\* whatever the match and training tables hold.
C4_SinEntradaPartido ==
    (EsMicrociclo /\ resp.status = "success"
        /\ JornadaCanonica(args.jornada) \in RondasSinPartidoPrevio) =>
        \A i \in 1..Len(resp.data.tipos) : resp.data.tipos[i] # "partido"

\* round 9 answered with training entries while round 8, the round before
\* it, has an eligible player in the match table
C4_Witness ==
    /\ EsMicrociclo
    /\ resp.status = "success"
    /\ locals.jornada_num = <<"J","9">>
    /\ Len(resp.data.tipos) > 0
    /\ \E r \in partidos : r.Jornada = <<"J","8">> /\ r.Minutos_jugados > 70

\* the values of largest count among the non-missing minutes of a group
MasFrecuentes(pres) ==
    {v \in {r.Minutos_jugados : r \in pres} :
        \A w \in {r.Minutos_jugados : r \in pres} :
            Cardinality({r \in pres : r.Minutos_jugados = w})
                <= Cardinality({r \in pres : r.Minutos_jugados = v})}

EntradasDe(k) ==
    {i \in 1..Len(datos_microciclo) :
        /\ datos_microciclo[i].tipo = "entrenamiento"
        /\ datos_microciclo[i].Situacion = k[1]
        /\ datos_microciclo[i].Fecha = k[2]}

MediaDe(rows, col) ==
    RatMean([r \in rows |-> IF r[col] = NaN THEN RatNaN ELSE <<r[col], 1>>], rows)

\* the spellings of round n the composer is given in these requests
GrafiasSimples(jornada) ==
    LET d == IntStr(NumeroJornada(jornada))
    IN  {TxtJ \o d, d, TxtSemana \o TxtJ \o d, TxtSemana \o d}

\* C5: each training group (Situacion, Fecha) gives one training entry made
\* of exactly the rows with minutes >= 0.7 x the mode of the group's
\* non-missing minutes, num_registros being their number; a group without
\* non-missing minutes gives no entry and does not make the request fail.
C5_Moda70 ==
    EsMicrociclo =>
        /\ resp.status = "success" =>
              \A k \in {<<r.Situacion, r.Fecha>> : r \in locals.df_entrenos} :
                  LET g == {r \in locals.df_entrenos : r.Situacion = k[1] /\ r.Fecha = k[2]}
                      pres == {r \in g : r.Minutos_jugados # NaN}
                  IN  IF pres = {} THEN EntradasDe(k) = {}
                      ELSE \E moda \in MasFrecuentes(pres) :
                              LET kept == {r \in pres : 10 * r.Minutos_jugados >= 7 * moda}
                              IN  /\ Cardinality(EntradasDe(k)) = 1
                                  /\ \A i \in EntradasDe(k) :
                                        /\ datos_microciclo[i].num_registros = Cardinality(kept)
                                        /\ datos_microciclo[i].distancia
                                               = MediaDe(kept, args.tipo_distancia)
        /\ resp.status = "error" =>
              \/ ~args.conecta
              \/ args.tipo_distancia \notin TiposDistancia
              \/ Strip(args.jornada) \notin GrafiasSimples(args.jornada)
              \/ ~\E r \in partidos : r.Jornada = JornadaCanonica(args.jornada)

\* minutes 90, 90, 90, 45, 20 in one group: the three rows of 90 are kept;
\* the same request holds a group without any minutes, which gives nothing
C5_Witness ==
    /\ EsMicrociclo
    /\ resp.status = "success"
    /\ \E i \in 1..Len(datos_microciclo) :
          LET e == datos_microciclo[i]
              g == {r \in locals.df_entrenos : r.Situacion = e.Situacion /\ r.Fecha = e.Fecha}
          IN  /\ e.tipo = "entrenamiento"
              /\ Cardinality(g) = 5
              /\ {r.Minutos_jugados : r \in g} = {90, 45, 20}
              /\ Cardinality({r \in g : r.Minutos_jugados = 90}) = 3
              /\ e.num_registros = 3
    /\ \E r \in locals.df_entrenos :
          /\ r.Minutos_jugados = NaN
          /\ EntradasDe(<<r.Situacion, r.Fecha>>) = {}

\* the date a dd/mm/yyyy text spells
FechaDeTexto(s) ==
    <<DigitsVal(SubSeq(s, 7, 10)), DigitsVal(SubSeq(s, 4, 5)), DigitsVal(SubSeq(s, 1, 2))>>

\* C6: in a success answer the entries come in non-decreasing date order,
\* match entry and training entries together, and the five parallel lists
\* are one permutation of the entries: position i of each describes the
\* same entry.
C6_OrdenCronologico ==
    (EsMicrociclo /\ resp.status = "success") =>
        LET d == resp.data
            n == Len(datos_microciclo)
        IN  /\ Len(d.situaciones) = n
            /\ Len(d.distancias) = n
            /\ Len(d.num_registros) = n
            /\ Len(d.fechas) = n
            /\ Len(d.tipos) = n
            /\ \A i, j \in 1..n :
                  i < j => DateLE(FechaDeTexto(d.fechas[i]), FechaDeTexto(d.fechas[j]))
            /\ \E p \in Permutations(1..n) :
                  \A i \in 1..n :
                      /\ d.situaciones[i] = datos_microciclo[p[i]].Situacion
                      /\ d.distancias[i] = datos_microciclo[p[i]].distancia
                      /\ d.num_registros[i] = datos_microciclo[p[i]].num_registros
                      /\ FechaDeTexto(d.fechas[i]) = datos_microciclo[p[i]].Fecha
                      /\ d.tipos[i] = datos_microciclo[p[i]].tipo

\* a match entry and training entries that were appended out of date order
C6_Witness ==
    /\ EsMicrociclo
    /\ resp.status = "success"
    /\ Len(datos_microciclo) >= 3
    /\ datos_microciclo[1].tipo = "partido"
    /\ \E i, j \in 1..Len(datos_microciclo) :
          i < j /\ DateLess(datos_microciclo[j].Fecha, datos_microciclo[i].Fecha)
    /\ resp.data.tipos[1] = "entrenamiento"

\* the start texts the priority allows: the configured override date, else
\* the date of a reference-match row, else the earliest training date;
\* with none of them nothing is asked of the start
IniciosPermitidos ==
    LET c == JornadaCanonica(args.jornada)
    IN  IF c = <<"J","5">> THEN {<<"0","8","/","0","9","/","2","0","2","4">>}
        ELSE IF c = <<"J","6">> THEN {<<"2","2","/","0","9","/","2","0","2","4">>}
        ELSE IF c = <<"J","9">> THEN {<<"1","3","/","1","0","/","2","0","2","4">>}
        ELSE IF locals.rows # {} THEN {Strftime(r.Fecha) : r \in locals.rows}
        ELSE IF locals.df_entrenos # {}
             THEN {Strftime(r.Fecha) :
                      r \in {x \in locals.df_entrenos :
                                \A y \in locals.df_entrenos : DateLE(x.Fecha, y.Fecha)}}
        ELSE {Strftime(r.Fecha) : r \in partidos \cup entrenos}

\* C7: the label is exactly 'Microciclo J<n> - <opponent of the current
\* round> (<start> - <end>)' with dd/mm/yyyy dates, the end being the date
\* of the current match and the start the override date if configured,
\* else the reference-match date, else the earliest training date.
C7_Etiqueta ==
    (EsMicrociclo /\ resp.status = "success") =>
        \E r \in partidos : \E inicio \in IniciosPermitidos :
            /\ r.Jornada = JornadaCanonica(args.jornada)
            /\ resp.data.microciclo_label =
                  <<"M","i","c","r","o","c","i","c","l","o"," ">>
                      \o JornadaCanonica(args.jornada) \o <<" ","-"," ">>
                      \o ExtraerRival(r.Partido) \o <<" ","(">>
                      \o inicio \o <<" ","-"," ">> \o Strftime(r.Fecha) \o <<")">>

\* round J3 against Rival X, from the reference match of 01/09/2024 to the
\* match of 08/09/2024, with an earlier training row in the week
C7_Witness ==
    /\ EsMicrociclo
    /\ resp.status = "success"
    /\ resp.data.microciclo_label =
          <<"M","i","c","r","o","c","i","c","l","o"," ","J","3"," ","-"," ",
            "R","i","v","a","l"," ","X"," ","(",
            "0","1","/","0","9","/","2","0","2","4"," ","-"," ",
            "0","8","/","0","9","/","2","0","2","4",")">>
    /\ \E r \in locals.df_entrenos : r.Fecha = <<2024, 8, 30>>

SinDatos == resp.status = "error" /\ "data" \notin DOMAIN resp /\ datos_microciclo = <<>>

\* C8: when the match table has no record of the current round the
\* composer answers with the error envelope and no data, also when training
\* rows and a reference match were found before.
C8_SinPartidoActual ==
    (EsMicrociclo /\ ~\E r \in partidos : r.Jornada = JornadaCanonica(args.jornada)) =>
        SinDatos

\* round 4 has no match row; its training rows and an eligible player of
\* the reference match had been read
C8_Witness ==
    /\ EsMicrociclo
    /\ args.jornada = <<"J","4">>
    /\ SinDatos
    /\ locals.df_entrenos # {}
    /\ \E r \in locals.rows : r.Minutos_jugados > 70
    /\ Len(queries) >= 3

\* C9: an empty round id, or one without any integer ('', 'J', 'abc'),
\* gives the error envelope, no data, and no query on the telemetry tables.
C9_JornadaSinEntero ==
    (EsMicrociclo /\ ExtractDigits(args.jornada) = <<>>) => SinDatos /\ queries = <<>>

\* 'J' on a reachable database with rows in it
C9_Witness ==
    /\ EsMicrociclo
    /\ args.jornada = <<"J">>
    /\ args.conecta
    /\ partidos # {}
    /\ entrenos # {}
    /\ SinDatos
    /\ queries = <<>>
    /\ locals.conexion = "cerrada"

\* an answer without the echoed round id
SinJornada(r) == IF "data" \in DOMAIN r THEN [r EXCEPT !.data.jornada = <<>>] ELSE r

\* C10: 'Semana_J<n>', 'J<n>' and '<n>', in any letter case and with
\* surrounding whitespace, give the canonical id 'J<n>' and the answer of
\* 'J<n>' apart from the echoed 'jornada'.
C10_GrafiasEquivalentes ==
    (/\ EsMicrociclo
     /\ args.conecta
     /\ Upper(Strip(args.jornada))
            \in {JornadaCanonica(args.jornada), IntStr(NumeroJornada(args.jornada)),
                 Upper(TxtSemana) \o JornadaCanonica(args.jornada)}) =>
        /\ locals.jornada_num = JornadaCanonica(args.jornada)
        /\ \E s \in MicrocicloResultados(JornadaCanonica(args.jornada),
                                        args.tipo_distancia, TRUE) :
              SinJornada(resp) = SinJornada(s.resp)

-----------------------------------------------------------------------------
(* Properties of the answers of every public operation *)

\* C11: every public operation answers with an envelope whose status is
\* 'success' or 'error'; a success envelope has 'data' and 'message', an
\* error envelope has 'message' and no 'data'.
C11_SobreUniforme ==
    op # "ninguna" =>
        IF "status" \notin DOMAIN resp THEN FALSE
        ELSE IF resp.status = "success" THEN {"data", "message"} \subseteq DOMAIN resp
        ELSE /\ resp.status = "error"
             /\ "message" \in DOMAIN resp
             /\ "data" \notin DOMAIN resp

\* C12: when the outcomes table cannot be loaded the collective bars answer
\* with the error envelope.
C12_ResultadosInaccesibles ==
    (op = "generar_barras_colectivas" /\ ~args.resultados_ok) => resp.status = "error"

\* a player that is missing (NULL, or the text the loader makes of it),
\* empty or blank
JugadorAusente(jugador) == jugador \in {"NULL", "None", "", " "}

\* C13: a row whose player is missing or blank contributes to no aggregate
\* of the collective bars, the scatter, the individual bars or the composer.
C13_SinJugadorNoCuenta ==
    op \in {"generar_barras_colectivas", "generar_scatter_individual",
            "generar_barras_individuales", "obtener_datos_microciclo_equipo"} =>
        \A a \in df_jugadores : ~JugadorAusente(a.Jugador)

EsBarrasExito == op = "generar_barras_colectivas" /\ resp.status = "success"

CodigosResultado == {<<"V">>, <<"E">>, <<"D">>}

\* C14: in the collective bars every round summary whose outcome is missing
\* or is none of V, E, D comes with the gray colour and with the label
\* exactly 'N/A'.
C14_SinResultadoNA ==
    EsBarrasExito =>
        \A i \in 1..Len(resp.data.resultados) :
            resp.data.resultados[i] \notin CodigosResultado =>
                /\ resp.data.colores[i] = "#9e9e9e"
                /\ resp.data.resultados[i] = <<"N","/","A">>

\* the fixed colour table
ColorDeTabla(codigo) ==
    IF codigo = <<"V">> THEN "#4CAF50"
    ELSE IF codigo = <<"E">> THEN "#FFC107"
    ELSE IF codigo = <<"D">> THEN "#DC143C"
    ELSE "#9e9e9e"

\* the spellings 'V', 'v', ' V ' and 'v ' of a one-letter code
GrafiasDeCodigo(mayuscula, minuscula) ==
    {<<mayuscula>>, <<minuscula>>, <<" ", mayuscula, " ">>, <<minuscula, " ">>}

\* C15: normalizing an outcome trims and upper-cases it: 'V', 'v', ' V '
\* and 'v ' all give 'V', normalizing twice gives the same as once, and the
\* colour of a bar is the one the fixed table gives for the normalized code.
C15_ResultadoNormalizado ==
    /\ \A r \in resultados :
          /\ NormalizarResultado(NormalizarResultado(r.Resultado))
                = NormalizarResultado(r.Resultado)
          /\ r.Resultado \in GrafiasDeCodigo("V", "v")
                => NormalizarResultado(r.Resultado) = <<"V">>
    /\ EsBarrasExito =>
          \A i \in 1..Len(resp.data.resultados) :
              /\ NormalizarResultado(resp.data.resultados[i]) = resp.data.resultados[i]
              /\ resp.data.colores[i] = ColorDeTabla(resp.data.resultados[i])
              /\ \A r \in resultados :
                    (/\ r.Resultado \in GrafiasDeCodigo("V", "v")
                     /\ resp.data.codigos[i] # <<>>
                     /\ resp.data.codigos[i] = IntStr(r.Codigo))
                        => resp.data.resultados[i] = <<"V">>

\* the outcome 'v ' of round 9 joined to its bar: label 'V', green
C15_Witness ==
    /\ EsBarrasExito
    /\ \E r \in resultados : r.Resultado = <<"v", " ">>
    /\ \E i \in 1..Len(resp.data.resultados) :
          /\ NumeroJornada(resp.data.jornadas[i]) = 9
          /\ resp.data.resultados[i] = <<"V">>
          /\ resp.data.colores[i] = "#4CAF50"

\* C16: one malformed row, a number that does not parse or a round id
\* without an integer, does not make the collective bars fail: they succeed
\* whenever a valid eligible player remains.
C16_FilaMalformada ==
    (/\ op = "generar_barras_colectivas"
     /\ \E r \in locals.rows :
           /\ ExtractDigits(r.Jornada) # <<>>
           /\ ~JugadorAusente(r.Jugador)
           /\ MinutosSumados(FilasDe(r)) > 70) =>
        resp.status = "success"

\* the players of the loaded table whose minutes, summed over the whole
\* table, are strictly more than n
JugadoresConMasDe(n) ==
    {a \in PromediosPorJugador(locals.rows) : a.Minutos_jugados > n}

\* C17: the individual bars keep exactly the players whose minutes summed
\* over the dataset are strictly more than 90, and of those the 15 (or
\* fewer) of largest mean total distance.
C17_MasDe90 ==
    (op = "generar_barras_individuales" /\ resp.status = "success") =>
        LET mayores == JugadoresConMasDe(90)
        IN  /\ df_jugadores \subseteq mayores
            /\ Cardinality(mayores) <= 15 => df_jugadores = mayores
            /\ Cardinality(mayores) > 15 => Cardinality(df_jugadores) = 15
            /\ \A a \in df_jugadores, b \in mayores \ df_jugadores :
                  RatGE(a.Distancia_total, b.Distancia_total)
            /\ resp.data.image = {a.Jugador : a \in df_jugadores}

\* thresholds around the ones the views use
Umbrales == {0, 45, 69, 70, 71, 89, 90, 94, 100}

\* the groups of rows the fixed strategy keeps under threshold n
Conservados(n) ==
    {FilasDe(r) : r \in {x \in locals.rows : SuperaUmbral(MinutosSumados(FilasDe(x)), n)}}

EsVistaDePartido ==
    /\ op \in {"generar_barras_colectivas", "generar_scatter_individual",
               "obtener_datos_microciclo_equipo"}
    /\ resp.status = "success"

\* C18: the fixed strategy is monotone in its threshold: whatever is kept
\* under the larger of two thresholds is kept under the smaller one, and the
\* match views keep what the strategy keeps under 70.
C18_Monotona ==
    EsVistaDePartido =>
        /\ \A n1 \in Umbrales, n2 \in Umbrales :
              n1 <= n2 => Conservados(n2) \subseteq Conservados(n1)
        /\ {FilasDe(a) : a \in df_jugadores} = Conservados(UmbralMinutos)

\* a player of 94 minutes is kept under 70 and under 90, one of 80 or of 71
\* only under 70
C18_Witness ==
    /\ EsVistaDePartido
    /\ Conservados(90) # {}
    /\ Conservados(90) # Conservados(70)
    /\ Conservados(100) = {}
    /\ {FilasDe(a) : a \in df_jugadores} = Conservados(70)

\* the training rows behind the training entries of the answer
FilasDeEntreno ==
    UNION {GrupoFiltrado(Grupo(locals.df_entrenos, k)) :
              k \in {x \in ClavesGrupos(locals.df_entrenos) :
                        MinutosPresentes(Grupo(locals.df_entrenos, x)) # {}}}

HayEntradaPartido == \E i \in 1..Len(datos_microciclo) : datos_microciclo[i].tipo = "partido"

\* the match rows behind the match entry of the answer
FilasDePartido ==
    IF HayEntradaPartido THEN UNION {FilasDe(a) : a \in df_jugadores} ELSE {}

\* C19: every training row behind a training entry is of the requested
\* round and every match row behind the match entry is of the reference
\* previous round; a round whose number only contains the same digits
\* contributes nothing.
C19_SoloLaJornada ==
    (EsMicrociclo /\ resp.status = "success") =>
        /\ \A r \in FilasDeEntreno :
              NumeroJornada(r.Jornada) = NumeroJornada(locals.jornada_num)
        /\ \A r \in FilasDePartido :
              NumeroJornada(r.Jornada) = NumeroJornada(locals.jornada_prev_num)

\* the reference previous round of round n, NoText for none
ReferenciaEsperada(n) ==
    IF n = 8 THEN <<"J","9">>
    ELSE IF n > 1 THEN TxtJ \o IntStr(n - 1)
    ELSE NoText

\* C20: the reference previous round of J<n> is J9 for J8, else J<n-1> for
\* n > 1, and none for n = 1; a request for round 1 reads no reference
\* match and yields no match entry, and a match entry is labelled
\* 'Partido <reference round>' for that round.
C20_JornadaDeReferencia ==
    (EsMicrociclo /\ locals.jornada_num # NoText) =>
        LET n == NumeroJornada(args.jornada)
        IN  /\ locals.jornada_prev_num = ReferenciaEsperada(n)
            /\ n = 1 => /\ ~HayEntradaPartido
                        /\ locals.rows = {}
                        /\ \A i \in 1..Len(queries) : queries[i] # "partido_previo"
            /\ \A i \in 1..Len(datos_microciclo) :
                  datos_microciclo[i].tipo = "partido" =>
                      /\ ReferenciaEsperada(n) # NoText
                      /\ StartsWith(datos_microciclo[i].Situacion,
                                    TxtPartido \o ReferenciaEsperada(n) \o TxtBrVs)

\* round 8 answered with the match against Z of round 9 as its reference,
\* while round 7 is not in the tables
C20_Witness ==
    /\ EsMicrociclo
    /\ resp.status = "success"
    /\ args.jornada = <<"J","8">>
    /\ locals.jornada_prev_num = <<"J","9">>
    /\ \E i \in 1..Len(datos_microciclo) :
          /\ datos_microciclo[i].tipo = "partido"
          /\ StartsWith(datos_microciclo[i].Situacion,
                        <<"P","a","r","t","i","d","o"," ","J","9","<","b","r",">","V","S"," ">>)
          /\ datos_microciclo[i].Fecha = <<2024, 10, 20>>

\* round 1 answered from its training rows alone
C20_SinReferencia ==
    /\ EsMicrociclo
    /\ resp.status = "success"
    /\ NumeroJornada(args.jornada) = 1
    /\ Len(datos_microciclo) > 0

-----------------------------------------------------------------------------
(* Properties of the training window, the annotated bars and the connection *)

\* the configured start of the training window of round n, NoDate for none
InicioConfigurado(n) ==
    IF n = 5 THEN <<2024, 9, 8>>
    ELSE IF n = 6 THEN <<2024, 9, 22>>
    ELSE IF n = 9 THEN <<2024, 10, 13>>
    ELSE NoDate

\* the training rows the query of the answered request returned
FilasConsultadas ==
    ConsultaEntrenos(locals.jornada_num, NumeroJornada(locals.jornada_num))

\* C21: for a round with a configured start of the training window (J5,
\* J6, J9) no training entry is dated before it and the rows dated on it or
\* later are all kept; for the other rounds no training row is discarded by
\* date.
C21_FechaInicioCustom ==
    (EsMicrociclo /\ resp.status = "success") =>
        LET inicio == InicioConfigurado(NumeroJornada(args.jornada))
        IN  IF inicio = NoDate THEN locals.df_entrenos = FilasConsultadas
            ELSE /\ \A i \in 1..Len(datos_microciclo) :
                       datos_microciclo[i].tipo = "entrenamiento" =>
                           DateLE(inicio, datos_microciclo[i].Fecha)
                 /\ locals.df_entrenos = {r \in FilasConsultadas : DateLE(inicio, r.Fecha)}

\* round 9 with a training row of 10/10 left out and the one of 13/10, the
\* configured start, in an entry
C21_Witness ==
    /\ EsMicrociclo
    /\ resp.status = "success"
    /\ locals.jornada_num = <<"J","9">>
    /\ \E r \in FilasConsultadas : r.Fecha = <<2024, 10, 10>>
    /\ \E i \in 1..Len(datos_microciclo) :
          /\ datos_microciclo[i].tipo = "entrenamiento"
          /\ datos_microciclo[i].Fecha = <<2024, 10, 13>>
    /\ \A i \in 1..Len(datos_microciclo) : datos_microciclo[i].Fecha # <<2024, 10, 10>>

\* the outcome rows of the results table for the round of a round id
ResultadosDeJornada(jornada) ==
    {r \in resultados :
        /\ ExtractDigits(r.Jornada) # <<>>
        /\ ExtractDigits(jornada) # <<>>
        /\ NumeroJornada(r.Jornada) = NumeroJornada(jornada)}

\* C22: in the collective bars every round summary whose round has an
\* outcome row in the results table carries the outcome of that row and its
\* colour, whether the match rows came from the SQL query or from the
\* table loader.
C22_UnionPorJornada ==
    (EsBarrasExito /\ args.resultados_ok) =>
        \A i \in 1..Len(resp.data.jornadas) :
            \A r \in ResultadosDeJornada(resp.data.jornadas[i]) :
                /\ resp.data.resultados[i] = NormalizarResultado(r.Resultado)
                /\ resp.data.colores[i] = ColorDeTabla(NormalizarResultado(r.Resultado))

\* the eligible players of the working frame, each as its set of rows
GruposElegibles == {FilasDe(r) : r \in {x \in locals.rows : MinutosSumados(FilasDe(x)) > 70}}

\* the (round, match) pairs with an eligible player
ParesConElegibles == {<<r.Jornada, r.Partido>> : r \in UNION GruposElegibles}

ElegiblesDePar(par) ==
    Cardinality({g \in GruposElegibles : \E r \in g : <<r.Jornada, r.Partido>> = par})

\* round and player count of the entries the pairs should give
EntradasEsperadas == {<<par[1], ElegiblesDePar(par)>> : par \in ParesConElegibles}

ListasDeBarras ==
    {"jornadas", "codigos", "distancia_total", "distancia_hsr", "distancia_sprint",
     "colores", "resultados", "num_jugadores"}

ListasParejas ==
    \A c \in ListasDeBarras : Len(resp.data[c]) = Len(resp.data.jornadas)

EntradasCon(x) ==
    {i \in 1..Len(resp.data.jornadas) :
        <<resp.data.jornadas[i], resp.data.num_jugadores[i]>> = x}

ParesCon(x) == {par \in ParesConElegibles : <<par[1], ElegiblesDePar(par)>> = x}

\* C23 as stated: the collective bars return exactly one entry per (round,
\* match) pair with an eligible player, all lists of one length, no entry
\* dropped or repeated by the annotation, num_jugadores the number of
\* eligible players of the match.
C23_UnaEntradaPorPartido ==
    EsBarrasExito =>
        /\ ListasParejas
        /\ \A i \in 1..Len(resp.data.jornadas) :
              <<resp.data.jornadas[i], resp.data.num_jugadores[i]>> \in EntradasEsperadas
        /\ \A x \in EntradasEsperadas :
              Cardinality(EntradasCon(x)) = Cardinality(ParesCon(x))

\* the number of outcome rows the results table holds for a round
ResultadosPorJornada(jornada) == Cardinality(ResultadosDeJornada(jornada))

Maximo(a, b) == IF a >= b THEN a ELSE b

\* C23, amended: all lists have one length, every entry is of a (round,
\* match) pair with an eligible player and carries its number of eligible
\* players, no pair is dropped, and a pair is returned once when the results
\* table holds at most one row for its round, never more often than that
\* round has outcome rows.
C23_UnaEntradaPorResultado ==
    EsBarrasExito =>
        /\ ListasParejas
        /\ \A i \in 1..Len(resp.data.jornadas) :
              <<resp.data.jornadas[i], resp.data.num_jugadores[i]>> \in EntradasEsperadas
        /\ \A x \in EntradasEsperadas :
              /\ Cardinality(EntradasCon(x)) >= Cardinality(ParesCon(x))
              /\ Cardinality(EntradasCon(x))
                    <= Cardinality(ParesCon(x)) * Maximo(1, ResultadosPorJornada(x[1]))

\* two matches with eligible players, two of them in one match, one outcome
\* row per round, the outcome of round 9 joined: two entries
C23_Witness ==
    /\ EsBarrasExito
    /\ resultados # {}
    /\ \A r \in resultados : ResultadosPorJornada(r.Jornada) = 1
    /\ Cardinality(ParesConElegibles) = 2
    /\ Len(resp.data.jornadas) = 2
    /\ \E i \in 1..2 : resp.data.resultados[i] = <<"V">>
    /\ \E i \in 1..2 : resp.data.num_jugadores[i] = 2

\* the opponent a match description names: the trimmed text after the
\* marker 'contra', the placeholder when there is no marker or nothing but
\* blanks after it
RivalEsperado(partido_text) ==
    IF Contains(partido_text, TxtContra) /\ Strip(SplitLast(partido_text, TxtContra)) # <<>>
    THEN Strip(SplitLast(partido_text, TxtContra))
    ELSE TxtRivalDesconocido

\* C24: the opponent of a match is the trimmed text after 'contra' in its
\* description and 'Rival desconocido' when the marker or the description
\* is missing or nothing follows the marker, in the list of matches, in the
\* current-round label and in the previous-match label.
C24_RivalExtraido ==
    /\ (op = "obtener_lista_partidos" /\ resp.status = "success") =>
          \A i \in 1..Len(resp.data.partidos) :
              resp.data.partidos[i].label =
                  resp.data.partidos[i].jornada \o <<" ", "-", " ">>
                      \o RivalEsperado(resp.data.partidos[i].partido)
    /\ (EsMicrociclo /\ resp.status = "success") =>
          /\ locals.rival \in
                {RivalEsperado(r.Partido) : r \in ConsultaPartidoActual(locals.jornada_num)}
          /\ locals.rival_partido_previo \in
                (IF locals.rows = {} THEN {TxtRivalDesconocido}
                 ELSE {RivalEsperado(r.Partido) : r \in locals.rows})

\* C26: once the composer has obtained a connection it has closed it
\* when it returns, on success, on a round id that is no integer, on a
\* missing current-round match and on a failing query; without a connection
\* there is none to close.
C26_ConexionCerrada ==
    EsMicrociclo =>
        locals.conexion = (IF args.jornada # <<>> /\ args.conecta THEN "cerrada" ELSE "ninguna")

\* a query that names an unknown column fails on an open connection, which
\* is closed when the error envelope is returned
C26_Witness ==
    /\ EsMicrociclo
    /\ args.conecta
    /\ args.tipo_distancia = "Distancia"
    /\ queries = <<"entrenos">>
    /\ resp.status = "error"
    /\ locals.conexion = "cerrada"

\* the request names a round, gets a connection, its round id is read as
\* an integer and the round has a match in the match table
PeticionAtendible ==
    /\ EsMicrociclo
    /\ args.jornada # <<>>
    /\ args.conecta
    /\ JornadaNumIntOk(JornadaNum(args.jornada))
    /\ \E r \in partidos : r.Jornada = JornadaNum(args.jornada)

EntradasPartido == {i \in 1..Len(datos_microciclo) : datos_microciclo[i].tipo = "partido"}

\* the mean, over the players of the reference match with more than 70
\* summed minutes, of the requested distance per 94 minutes is zero
MediaDeReferenciaNula ==
    /\ args.tipo_distancia \in TiposDistancia
    /\ df_jugadores # {}
    /\ \A a \in df_jugadores : SumSkipNaN(FilasDe(a), args.tipo_distancia) = 0

SinEntradaEsperada ==
    \/ locals.rows = {}
    \/ \A r \in locals.rows : MinutosSumados(FilasDe(r)) <= 70
    \/ MediaDeReferenciaNula
    \/ args.tipo_distancia \notin TiposDistancia

SoloConReferencia ==
    /\ Cardinality(EntradasPartido) <= 1
    /\ \A i \in EntradasPartido :
          /\ locals.rows # {}
          /\ RatGT0(datos_microciclo[i].distancia)
          /\ datos_microciclo[i].Fecha \in {r.Fecha : r \in locals.rows}

ColumnasNumericas == TiposDistancia \cup {"Minutos_jugados"}

C27_SinElegibles ==
    /\ PeticionAtendible
    /\ resp.status = "success"
    /\ locals.rows # {}
    /\ \A r \in locals.rows : MinutosSumados(FilasDe(r)) <= 70

C27_OtraColumna ==
    /\ PeticionAtendible
    /\ resp.status = "success"
    /\ args.tipo_distancia = "Minutos_jugados"
    /\ \E r \in locals.rows : MinutosSumados(FilasDe(r)) > 70
    /\ Len(datos_microciclo) > 0

C27_ConEntrada ==
    /\ PeticionAtendible
    /\ EntradasPartido # {}

\* the training groups of the answered request whose minutes have several
\* most frequent values
GruposConEmpate ==
    {g \in {Grupo(locals.df_entrenos, k) : k \in ClavesGrupos(locals.df_entrenos)} :
        Cardinality(MasFrecuentes({r \in g : r.Minutos_jugados # NaN})) > 1}

\* C28: when the minutes of a training group have several most frequent
\* values, the 70 % threshold is taken from the smallest of them: the entry
\* of the group is made of the rows with minutes >= 0.7 x that value.
C28_EmpateDeModa ==
    (EsMicrociclo /\ resp.status = "success") =>
        \A g \in GruposConEmpate :
            LET pres == {r \in g : r.Minutos_jugados # NaN}
                menor == CHOOSE v \in MasFrecuentes(pres) : \A w \in MasFrecuentes(pres) : v <= w
                kept == {r \in pres : 10 * r.Minutos_jugados >= 7 * menor}
                k == CHOOSE c \in ClavesGrupos(g) : TRUE
            IN  /\ Cardinality(EntradasDe(k)) = 1
                /\ \A i \in EntradasDe(k) :
                      /\ datos_microciclo[i].num_registros = Cardinality(kept)
                      /\ datos_microciclo[i].distancia = MediaDe(kept, args.tipo_distancia)

\* minutes 90 and 45 once each: the threshold comes from 45, so the row of
\* 45, below 70 % of 90, is kept too
C28_Witness ==
    /\ EsMicrociclo
    /\ resp.status = "success"
    /\ \E g \in GruposConEmpate :
          /\ {r.Minutos_jugados : r \in g} = {90, 45}
          /\ \E i \in EntradasDe(CHOOSE c \in ClavesGrupos(g) : TRUE) :
                datos_microciclo[i].num_registros = 2

\* C29: the composer validates the distance kind before using it: a kind
\* outside Distancia_total, Distancia_HSR, Distancia_Sprint is named in no
\* query and gives no success answer.
C29_TipoValidado ==
    (EsMicrociclo /\ args.tipo_distancia \notin TiposDistancia) =>
        /\ queries = <<>>
        /\ resp.status # "success"

\* C25: no operation of the module changes state that requests share: the
\* four fields of the instance stay as constructed, and whatever the
\* interleaving of concurrent requests, each answer is one the request gives
\* when it runs alone on the same tables.
C25_SinEstadoCompartido ==
    /\ modulo = FisicosModuleInit
    /\ \A h \in Hilos :
          hilos[h].pc = "hecho" =>
              hilos[h].resp \in
                  {s.resp : s \in BarrasIndividualesResultados(hilos[h].loader_ok)}

\* C30: whatever start() and stop() calls were made, one after another or
\* overlapping, once they have all returned is_running is True exactly when
\* the underlying scheduler is started and not shut down.
C30_EstadoDelProgramador ==
    (\A c \in Llamadas : llamadas[c].pc \in {"libre", "devuelto"}) =>
        (is_running <=> scheduler.state = "running")

====
